---- MODULE Spec2Model ----
(***************************************************************************)
(* Model of src/app.py: the forum access layer (UserManager,              *)
(* MessageServiceClient, the UI operations, the reply guard and the MCP   *)
(* tool dispatcher).                                                       *)
(*                                                                         *)
(* Specifications:                                                         *)
(*   Spec           the operations, one after the other, each with its     *)
(*                  identity resolution and its transport calls            *)
(*   SpecTransport  single transport calls of both request methods         *)
(*   SpecShared     coroutines awaiting _make_request concurrently on the  *)
(*                  shared message_client                                  *)
(*   SpecUsers      threads calling get_or_create_user_id concurrently     *)
(*   SpecGuard      the reply guard as a function of the fetched feed      *)
(*   SpecAdapter    the presentation adapter as a function of the fetched  *)
(*                  value                                                  *)
(***************************************************************************)
EXTENDS Integers, Sequences, FiniteSets, TLC

VARIABLES
    tr,             \* per caller: the transport call in progress
    _client,        \* MessageServiceClient._client (NoClient is None)
    closedClients,  \* the HTTP clients whose is_closed is True
    ncalls,         \* transport calls started so far
    default_user_id,\* UserManager.default_user_id
    session_users,  \* UserManager.session_users
    now,            \* the clock time.time() reads
    nuuid,          \* uuid.uuid4() values drawn so far
    th,             \* per thread: the get_or_create_user_id call in progress
    nucalls,        \* get_or_create_user_id calls started by the threads
    gin,            \* SpecGuard: the feed value and post id the guard is applied to
    gout,           \* SpecGuard: what the guard returned
    ain,            \* SpecAdapter: the adapter and the fetched value it is applied to
    aout,           \* SpecAdapter: what the adapter returned
    op,             \* Spec: the operation (UI callback or MCP tool call) in progress
    nops            \* Spec: operations completed

trVars == <<tr, _client, closedClients, ncalls>>
umVars == <<default_user_id, session_users, now, nuuid>>
thVars == <<th, nucalls>>
gVars == <<gin, gout, ain, aout>>
opVars == <<op, nops>>
vars == <<trVars, umVars, thVars, gVars, opVars>>
\* what the transport's steps, and the threads' steps, leave alone
notTransport == <<umVars, thVars, gVars, opVars>>
notThreads == <<trVars, gVars, opVars>>

None == "None"

(***************************************************************************)
(* Bounds                                                                  *)
(***************************************************************************)
\* transport calls started in one run of SpecTransport
MaxCalls == 3
\* _make_request calls started in one run of SpecShared
MaxAsyncCalls == 2

\* get_or_create_user_id calls started in one run of SpecUsers
MaxUserCalls == 3
\* entries of a feed value in SpecGuard
MaxFeedLen == 2
\* operations carried out in one run of Spec
MaxOps == 2
\* entries of a list the adapter is applied to in SpecAdapter
MaxListLen == 2

(***************************************************************************)
(* UserManager                                                             *)
(***************************************************************************)
\* the values str(uuid.uuid4()) yields, in the order drawn: never two alike
UUIDS == <<"0a1b2c3d-1111", "9f8e7d6c-2222", "55aa66bb-3333">>
uuid4 == UUIDS[nuuid + 1]

\* identities a caller supplies; "" is falsy like None
ProvidedIds == {"ua", "agent-bob-0002"}
UserArgs == {None, ""} \cup ProvidedIds

\* if provided_user_id:
Truthy(a) == a # None /\ a # ""

\* s[:8]
First8(s) == IF Len(s) > 8 THEN SubSeq(s, 1, 8) ELSE s

\* the record of a caller-supplied identity (display name 用户_<id[:8]>)
ProvidedRecord(id, t) ==
    [user_id |-> id, created_at |-> t, display_name |-> "user_" \o First8(id)]

\* the record of the generated identity (display name 临时用户_<id[:8]>); the two
\* reads of self.default_user_id in the dict display are r1 and r2
DefaultRecord(r1, t, r2) ==
    [user_id |-> r1, created_at |-> t, display_name |-> "temp_user_" \o First8(r2)]

\* self.session_users[k] = rec
Store(users, k, rec) ==
    [x \in DOMAIN users \cup {k} |-> IF x = k THEN rec ELSE users[x]]

InitUserManager ==
    /\ default_user_id = None
    /\ session_users = <<>>
    /\ now = 0
    /\ nuuid = 0

\* get_or_create_user_id(provided) run without interruption: what it returns and
\* what it leaves in the registry
get_or_create_user_id(provided) ==
    IF Truthy(provided)
    THEN IF provided \notin DOMAIN session_users
         THEN [ret |-> provided, default |-> default_user_id,
               users |-> Store(session_users, provided, ProvidedRecord(provided, now)),
               now |-> now + 1, nuuid |-> nuuid]
         ELSE [ret |-> provided, default |-> default_user_id, users |-> session_users,
               now |-> now, nuuid |-> nuuid]
    ELSE IF default_user_id = None
         THEN [ret |-> uuid4, default |-> uuid4,
               users |-> Store(session_users, uuid4, DefaultRecord(uuid4, now, uuid4)),
               now |-> now + 1, nuuid |-> nuuid + 1]
         ELSE [ret |-> default_user_id, default |-> default_user_id,
               users |-> session_users, now |-> now, nuuid |-> nuuid]

\* the registry after the call that returned r
Resolved(r) ==
    /\ default_user_id' = r.default
    /\ session_users' = r.users
    /\ now' = r.now
    /\ nuuid' = r.nuuid

\* ---- get_or_create_user_id, statement by statement, in the threads that share
\* user_manager (Gradio's worker threads, the MCP loop) ----
Threads == {"t1", "t2"}

NoRecord == [user_id |-> None, created_at |-> 0, display_name |-> ""]
\* the call a thread made before the one it is in: its argument and what it returned
NoPrevious == [called |-> FALSE, arg |-> None, ret |-> None]
Previous(c) ==
    IF c.pc = "done" THEN [called |-> TRUE, arg |-> c.arg, ret |-> c.ret] ELSE NoPrevious
IdleThread ==
    [pc |-> "idle", arg |-> None, r1 |-> None, t |-> 0, rec |-> NoRecord, ret |-> None,
     prev |-> NoPrevious]

\* a thread calls get_or_create_user_id(a): line 39
Call(t, a) ==
    /\ th[t].pc \in {"idle", "done"}
    /\ nucalls < MaxUserCalls
    /\ nucalls' = nucalls + 1
    /\ th' = [th EXCEPT ![t] = [IdleThread EXCEPT !.arg = a, !.prev = Previous(th[t]),
                                   !.pc = IF Truthy(a) THEN "L41" ELSE "L51"]]
    /\ UNCHANGED <<umVars, notThreads>>

\* line 41: if provided_user_id not in self.session_users; the dict display of
\* lines 42-46 reads the clock
L41(t) ==
    /\ th[t].pc = "L41"
    /\ IF th[t].arg \notin DOMAIN session_users
       THEN /\ th' = [th EXCEPT ![t].pc = "L42", ![t].t = now]
            /\ now' = now + 1
       ELSE /\ th' = [th EXCEPT ![t].pc = "L48"]
            /\ UNCHANGED now
    /\ UNCHANGED <<default_user_id, session_users, nuuid, nucalls, notThreads>>

\* line 42: self.session_users[provided_user_id] = {...}
L42(t) ==
    /\ th[t].pc = "L42"
    /\ session_users' = Store(session_users, th[t].arg, ProvidedRecord(th[t].arg, th[t].t))
    /\ th' = [th EXCEPT ![t].pc = "L48"]
    /\ UNCHANGED <<default_user_id, now, nuuid, nucalls, notThreads>>

\* line 48: return provided_user_id
L48(t) ==
    /\ th[t].pc = "L48"
    /\ th' = [th EXCEPT ![t].pc = "done", ![t].ret = th[t].arg]
    /\ UNCHANGED <<umVars, nucalls, notThreads>>

\* line 51: if not self.default_user_id
L51(t) ==
    /\ th[t].pc = "L51"
    /\ th' = [th EXCEPT ![t].pc = IF default_user_id = None THEN "L52" ELSE "L59"]
    /\ UNCHANGED <<umVars, nucalls, notThreads>>

\* line 52: self.default_user_id = str(uuid.uuid4())
L52(t) ==
    /\ th[t].pc = "L52"
    /\ default_user_id' = uuid4
    /\ nuuid' = nuuid + 1
    /\ th' = [th EXCEPT ![t].pc = "L54"]
    /\ UNCHANGED <<session_users, now, nucalls, notThreads>>

\* lines 54-55: 'user_id': self.default_user_id, 'created_at': time.time()
L54(t) ==
    /\ th[t].pc = "L54"
    /\ th' = [th EXCEPT ![t].pc = "L56", ![t].r1 = default_user_id, ![t].t = now]
    /\ now' = now + 1
    /\ UNCHANGED <<default_user_id, session_users, nuuid, nucalls, notThreads>>

\* lines 56 and 53: the display name reads self.default_user_id again, and so does
\* the subscript of the store self.session_users[self.default_user_id] = {...}
L56(t) ==
    /\ th[t].pc = "L56"
    /\ th' = [th EXCEPT ![t].pc = "L53",
                         ![t].rec = DefaultRecord(th[t].r1, th[t].t, default_user_id)]
    /\ UNCHANGED <<umVars, nucalls, notThreads>>

L53(t) ==
    /\ th[t].pc = "L53"
    /\ session_users' = Store(session_users, default_user_id, th[t].rec)
    /\ th' = [th EXCEPT ![t].pc = "L59"]
    /\ UNCHANGED <<default_user_id, now, nuuid, nucalls, notThreads>>

\* line 59: return self.default_user_id
L59(t) ==
    /\ th[t].pc = "L59"
    /\ th' = [th EXCEPT ![t].pc = "done", ![t].ret = default_user_id]
    /\ UNCHANGED <<umVars, nucalls, notThreads>>

InitThreads ==
    /\ th = [t \in Threads |-> IdleThread]
    /\ nucalls = 0

NextUsers ==
    \E t \in Threads :
        \/ \E a \in UserArgs : Call(t, a)
        \/ L41(t) \/ L42(t) \/ L48(t)
        \/ L51(t) \/ L52(t) \/ L54(t) \/ L56(t) \/ L53(t) \/ L59(t)

(***************************************************************************)
(* JSON values, as response.json() returns them                            *)
(***************************************************************************)
JNull == [t |-> "null"]
JStr(s) == [t |-> "str", s |-> s]
JList(l) == [t |-> "list", l |-> l]
JDict(d) == [t |-> "dict", d |-> d]
JNum(n) == [t |-> "num", n |-> n]
JBool(b) == [t |-> "bool", b |-> b]

\* isinstance(v, dict), isinstance(v, list), isinstance(v, str)
IsDict(v) == v.t = "dict"
IsList(v) == v.t = "list"
IsStr(v) == v.t = "str"

\* d.get(k, default); d.get(k) is d.get(k, None)
Get(d, k, default) == IF k \in DOMAIN d.d THEN d.d[k] ELSE default

\* s[:n]
Prefix(s, n) == IF Len(s) > n THEN SubSeq(s, 1, n) ELSE s

(***************************************************************************)
(* The reply guard: validate_post_id_in_subscribed_topics                  *)
(***************************************************************************)
\* the characters of the content the preview keeps
PreviewLen == 50

GuardResult(allowed, topic, preview) ==
    [allowed |-> allowed, topic |-> topic, preview |-> preview]

\* return False, "", ""   (line 563: not found)
NotFound == GuardResult(FALSE, JStr(""), "")

\* an except clause that lets the reply through
validate_except_open == GuardResult(TRUE, JStr(""), "")
\* except Exception: return False, "", ""   (lines 564-566)
validate_except == GuardResult(FALSE, JStr(""), "")

\* line 555 (entries under 'requests'): req.get("request_id") == post_id
\* line 560 (list-shaped feed): req.get("id") == post_id or req.get("request_id") == post_id
EntryMatches(shape, e, post_id) ==
    IF shape = "dict"
    THEN Get(e, "request_id", JNull) = JStr(post_id)
    ELSE Get(e, "id", JNull) = JStr(post_id) \/ Get(e, "request_id", JNull) = JStr(post_id)

\* for req in ...: if isinstance(req, dict): if <match>: the index of the entry the
\* loop returns on, 0 if it runs to its end
RECURSIVE FirstMatch(_, _, _, _)
FirstMatch(shape, l, i, post_id) ==
    IF i > Len(l) THEN 0
    ELSE IF IsDict(l[i]) /\ EntryMatches(shape, l[i], post_id) THEN i
    ELSE FirstMatch(shape, l, i + 1, post_id)

\* a preview that keeps the whole content
ReturnFound_whole_content(e) ==
    LET content == Get(e, "content", JStr(""))
    IN IF IsStr(content)
       THEN GuardResult(TRUE, Get(e, "topic", JStr("")), content.s \o "...")
       ELSE validate_except
\* return True, req.get("topic", ""), req.get("content", "")[:50] + "..."
\* slicing a content that is no string (None) raises TypeError, which the except
\* clause of the guard turns into its result
ReturnFound(e) ==
    LET content == Get(e, "content", JStr(""))
    IN IF IsStr(content)
       THEN GuardResult(TRUE, Get(e, "topic", JStr("")),
                        Prefix(content.s, PreviewLen) \o "...")
       ELSE validate_except

SearchList(shape, l, post_id) ==
    LET i == FirstMatch(shape, l, 1, post_id)
    IN IF i = 0 THEN NotFound ELSE ReturnFound(l[i])

\* lines 551-563, on the value the feed fetch returned
SearchFeed(feed, post_id) ==
    IF IsDict(feed)
    THEN LET requests_list == Get(feed, "requests", JList(<<>>))
         IN IF IsList(requests_list) THEN SearchList("dict", requests_list.l, post_id)
            ELSE IF requests_list.t \in {"str", "dict"} THEN NotFound \* iterates, no dict in it
            ELSE validate_except                                      \* not iterable
    ELSE IF IsList(feed) THEN SearchList("list", feed.l, post_id)
    ELSE NotFound

\* ---- the feed values and post ids SpecGuard applies the guard to ----
Merge(f, g) == [k \in DOMAIN f \cup DOMAIN g |-> IF k \in DOMAIN f THEN f[k] ELSE g[k]]

ShortContent == "need X"
LongContent == "0123456789012345678901234567890123456789012345678901234567890"

IdFields ==
    { [id |-> JStr("p1")], [request_id |-> JStr("p1")], [id |-> JStr("p2")],
      [id |-> JStr("p1"), request_id |-> JStr("p2")], <<>> }
BodyFields ==
    { [topic |-> JStr("help"), content |-> JStr(ShortContent)],
      [topic |-> JStr("help"), content |-> JStr(LongContent)],
      [topic |-> JStr("tech"), content |-> JStr(ShortContent)],
      [topic |-> JStr("help"), content |-> JNull],
      <<>> }
GuardEntries ==
    {JDict(Merge(i, b)) : i \in IdFields, b \in BodyFields} \cup {JStr("junk")}

SeqsUpTo(S, n) == UNION {[1..k -> S] : k \in 0..n}

GuardFeeds ==
    LET lists == SeqsUpTo(GuardEntries, MaxFeedLen)
    IN {JList(l) : l \in lists}
       \cup {JDict([status |-> JStr("success"), requests |-> JList(l)]) : l \in lists}
       \cup {JDict([status |-> JStr("success")]),
             JDict([status |-> JStr("success"), requests |-> JNull]),
             JStr("no messages")}
PostIds == {"p1", "p2"}

NoGuardInput == [feed |-> JNull, post_id |-> ""]
NoGuardOutput == [done |-> FALSE, res |-> NotFound]

\* the guard applied to a fetched feed value
Validate ==
    /\ ~gout.done
    /\ gin # NoGuardInput
    /\ gout' = [done |-> TRUE, res |-> SearchFeed(gin.feed, gin.post_id)]
    /\ UNCHANGED <<gin, ain, aout, trVars, umVars, thVars, opVars>>

InitGuardIdle == gin = NoGuardInput /\ gout = NoGuardOutput

NextGuard == Validate

(***************************************************************************)
(* Transport: MessageServiceClient                                         *)
(***************************************************************************)
\* the caller of SpecTransport, which makes one call after the other
Callers == {"c1"}
\* the coroutines of SpecShared, which share message_client on one event loop
Coroutines == {"a1", "a2"}
Procs == Callers \cup Coroutines \cup {"w"}

\* a retry loop that runs once more (range(max_retries + 1))
max_retries_one_more == 3 + 1
\* max_retries = 3 in _make_request and _make_sync_request
max_retries == 3

\* What one attempt can end in:
\*   ok      a 2xx response whose body parses          (return response.json())
\*   status  a well-formed non-2xx response            (httpx.HTTPStatusError)
\*   conn    connection failure or timeout             (httpx.ConnectError, TimeoutException)
\*   parse   a 2xx response whose body does not parse  (ValueError from response.json())
Outcomes == {"ok", "status", "conn", "parse"}

\* a retry clause that catches every exception
HTTPErrorClause_all == {"status", "conn", "parse"}
\* except (httpx.HTTPError, httpx.ConnectError, httpx.TimeoutException):
\* httpx.HTTPStatusError, raised by raise_for_status(), is a subclass of httpx.HTTPError
HTTPErrorClause == {"status", "conn"}

NoErr == [kind |-> "none", cause |-> "none"]
\* raise Exception(f"请求失败: {str(e)}")
RequestFailed(o) == [kind |-> "request_failed", cause |-> o]
\* raise Exception(f"处理错误: {str(e)}")
ProcessingError(o) == [kind |-> "processing_error", cause |-> o]

\* An HTTP client instance: <<"own", p, n>> is the client that attempt n of caller p
\* constructs in its with block, <<"shared", "", n>> the n-th AsyncClient held in
\* _client. An instance is forgotten once nothing refers to it any more.
NoClient == <<"none", "", 0>>
OwnClient(p, a) == <<"own", p, a>>
SharedClient(n) == <<"shared", "", n>>

\* (method, endpoint, json=...) of a request
Request(method, path, json) == [method |-> method, path |-> path, json |-> json]
NoJson == <<>>
NoRequest == Request("", "", NoJson)

IdleCall ==
    [pc |-> "idle", kind |-> "sync", attempt |-> 0, waits |-> 0, outs |-> <<>>,
     cli |-> NoClient, used |-> <<>>, opened |-> {}, err |-> NoErr,
     req |-> NoRequest, resp |-> JNull]

\* the call's locals on entry
Entered(req) == [IdleCall EXCEPT !.req = req]

Range(s) == {s[i] : i \in DOMAIN s}

\* the clients something still refers to, apart from caller p
ReferencedBut(p) ==
    {_client} \cup UNION {Range(tr[q].used) \cup tr[q].opened : q \in DOMAIN tr \ {p}}
Referenced == ReferencedBut(None)

\* for attempt in range(max_retries): the loop variable after one more failure
NextAttempt(a) == a + 1

\* a test that lets one more attempt follow
IsLastAttempt_one_later(a) == a = max_retries
\* if attempt == max_retries - 1: raise
IsLastAttempt(a) == a = max_retries - 1

\* the wait placed before the test for the last attempt
AfterFailure_wait_first(c, o) ==
    IF o \in HTTPErrorClause
    THEN IF IsLastAttempt(c.attempt)
         THEN [c EXCEPT !.pc = "raised", !.err = RequestFailed(o), !.waits = @ + 1]
         ELSE [c EXCEPT !.pc = "sleeping", !.waits = @ + 1]
    ELSE [c EXCEPT !.pc = "raised", !.err = ProcessingError(o)]

\* The except clauses of both request methods, after attempt `a` ended in failure o:
\* the call raises, or goes on to wait (and, in _make_request, to close first)
AfterFailure(c, o) ==
    IF o \in HTTPErrorClause
    THEN IF IsLastAttempt(c.attempt)
         THEN [c EXCEPT !.pc = "raised", !.err = RequestFailed(o)]
         ELSE [c EXCEPT !.pc = "sleeping", !.waits = @ + 1]
    ELSE [c EXCEPT !.pc = "raised", !.err = ProcessingError(o)]

\* an attempt begins: the request goes out on client c
Sending(c, k, a, cl, fresh) ==
    [c EXCEPT !.pc = "inflight", !.kind = k, !.attempt = a, !.cli = cl,
              !.used = Append(@, cl),
              !.opened = IF fresh THEN @ \cup {cl} ELSE @]

\* ---- _make_sync_request: with httpx.Client(timeout=30.0) as client ----
\* every attempt constructs its own client
SyncSend(p, c, a) ==
    /\ tr' = [tr EXCEPT ![p] = Sending(c, "sync", a, OwnClient(p, a), TRUE)]
    /\ UNCHANGED <<_client, closedClients>>

\* the with block is left (the client closed) before the result is returned or the
\* except clause runs
SyncRecv(p, o, v) ==
    /\ tr[p].pc = "inflight" /\ tr[p].kind = "sync"
    /\ closedClients' = closedClients \cup {tr[p].cli}
    /\ LET c == [tr[p] EXCEPT !.outs = Append(@, o)]
       IN tr' = [tr EXCEPT ![p] =
                    IF o = "ok" THEN [c EXCEPT !.pc = "returned", !.resp = v]
                    ELSE AfterFailure(c, o)]
    /\ UNCHANGED _client

\* ---- _make_request: client = self.client ----
\* httpx.AsyncClient(...): an instance nothing refers to yet
NewAsyncClient ==
    SharedClient(CHOOSE n \in 1..(Cardinality(Referenced) + 1) :
                    /\ SharedClient(n) \notin Referenced
                    /\ \A m \in 1..(n - 1) : SharedClient(m) \in Referenced)

\* the client property: a new AsyncClient if there is none or it is closed
clientIsFresh == _client = NoClient \/ _client \in closedClients
client == IF clientIsFresh THEN NewAsyncClient ELSE _client

AsyncSend(p, c, a) ==
    /\ tr' = [tr EXCEPT ![p] = Sending(c, "async", a, client, clientIsFresh)]
    /\ _client' = client
    /\ closedClients' = closedClients \ {client}
    
\* a close() that never closes
closeActs_never == FALSE
\* close(): if self._client and not self._client.is_closed
closeActs == _client # NoClient /\ _client \notin closedClients

\* the response or the exception of the awaited request; on a retryable failure
\* close() runs up to its await of aclose(), which marks the client closed at once
AsyncRecv(p, o, v) ==
    /\ tr[p].pc = "inflight" /\ tr[p].kind = "async"
    /\ LET c == [tr[p] EXCEPT !.outs = Append(@, o)]
           f == AfterFailure(c, o)
       IN IF o = "ok"
          THEN /\ tr' = [tr EXCEPT ![p] = [c EXCEPT !.pc = "returned", !.resp = v]]
               /\ UNCHANGED closedClients
          ELSE IF f.pc = "sleeping" /\ closeActs
          THEN /\ tr' = [tr EXCEPT ![p] = [c EXCEPT !.pc = "closing"]]
               /\ closedClients' = closedClients \cup {_client}
          ELSE /\ tr' = [tr EXCEPT ![p] = f]
               /\ UNCHANGED closedClients
    /\ UNCHANGED _client

\* close() resumes after aclose(): self._client = None; then asyncio.sleep(1)
AsyncCloseDone(p) ==
    /\ tr[p].pc = "closing"
    /\ _client' = NoClient
    /\ tr' = [tr EXCEPT ![p].pc = "sleeping", ![p].waits = @ + 1]
    /\ UNCHANGED <<closedClients, ncalls, notTransport>>

\* ---- the callers of SpecTransport ----
\* _make_sync_request("GET", "/stats")
StatsRequest == Request("GET", "/stats", NoJson)
\* what the server's /stats answers with
StatsBody == JDict([status |-> JStr("success")])

StartCall(p, k, max) ==
    /\ tr[p].pc = "idle"
    /\ ncalls < max
    /\ ncalls' = ncalls + 1
    /\ UNCHANGED notTransport
    /\ IF k = "sync" THEN SyncSend(p, Entered(StatsRequest), 0)
       ELSE AsyncSend(p, Entered(StatsRequest), 0)

\* time.sleep(1) / asyncio.sleep(1) is over: the next iteration of the loop
Wake(p) ==
    /\ tr[p].pc = "sleeping"
    /\ UNCHANGED <<ncalls, notTransport>>
    /\ IF tr[p].kind = "sync"
       THEN SyncSend(p, tr[p], NextAttempt(tr[p].attempt))
       ELSE AsyncSend(p, tr[p], NextAttempt(tr[p].attempt))

Recv(p, o, v) ==
    /\ SyncRecv(p, o, v) \/ AsyncRecv(p, o, v)
    /\ UNCHANGED <<ncalls, notTransport>>

\* the caller has taken the result or the exception; the instances only this call
\* referred to are forgotten
FinishCall(p) ==
    /\ tr[p].pc \in {"returned", "raised"}
    /\ tr' = [tr EXCEPT ![p] = IdleCall]
    /\ closedClients' = closedClients \cap ReferencedBut(p)
    /\ UNCHANGED <<_client, ncalls, notTransport>>

(***************************************************************************)
(* Operations: the Gradio callbacks and the MCP tool dispatcher,           *)
(* carried out one after the other by the worker W                         *)
(***************************************************************************)
W == "w"

\* s.strip()
RECURSIVE lstrip(_)
lstrip(s) == IF Len(s) > 0 /\ SubSeq(s, 1, 1) = " " THEN lstrip(SubSeq(s, 2, Len(s))) ELSE s
RECURSIVE rstrip(_)
rstrip(s) ==
    IF Len(s) > 0 /\ SubSeq(s, Len(s), Len(s)) = " " THEN rstrip(SubSeq(s, 1, Len(s) - 1))
    ELSE s
strip(s) == rstrip(lstrip(s))

\* "GET", f"/users/{actual_user_id}/received/requests"
FeedRequest(id) == Request("GET", "/users/" \o id \o "/received/requests", NoJson)
\* "GET", f"/users/{actual_user_id}/subscriptions"
SubscriptionsRequest(id) == Request("GET", "/users/" \o id \o "/subscriptions", NoJson)
\* "GET", f"/users/{actual_user_id}/requests"
MyRequestsRequest(id) == Request("GET", "/users/" \o id \o "/requests", NoJson)
\* "GET", f"/users/{actual_user_id}/received/responses"
ReceivedResponsesRequest(id) ==
    Request("GET", "/users/" \o id \o "/received/responses", NoJson)
\* "POST", "/topics/subscribe", json={"user_id": actual_user_id, "topic": topic}
SubscribeRequest(id, topic) ==
    Request("POST", "/topics/subscribe", [user_id |-> id, topic |-> topic])
\* "POST", "/topics/unsubscribe", json={"user_id": actual_user_id, "topic": topic}
UnsubscribeRequest(id, topic) ==
    Request("POST", "/topics/unsubscribe", [user_id |-> id, topic |-> topic])
\* a payload that always carries the title
PublishRequestRequest_always_title(id, topic, title, content) ==
    Request("POST", "/requests/publish",
            [user_id |-> id, topic |-> topic, content |-> content, title |-> title])
\* payload = {user_id, topic, content}; if title.strip(): payload["title"] = title
PublishRequestRequest(id, topic, title, content) ==
    Request("POST", "/requests/publish",
            IF strip(title) # ""
            THEN [user_id |-> id, topic |-> topic, content |-> content, title |-> title]
            ELSE [user_id |-> id, topic |-> topic, content |-> content])
\* "POST", "/responses/publish", json={user_id, request_id, content}
PublishResponseRequest(id, request_id, content) ==
    Request("POST", "/responses/publish",
            [user_id |-> id, request_id |-> request_id, content |-> content])

IsPublishResponse(req) == req.method = "POST" /\ req.path = "/responses/publish"

\* what the server may answer a request with (2xx, parsable): a feed in either
\* shape, with or without the post p1, or a status object
ServerFeeds ==
    { JList(<<>>),
      JList(<<JDict([id |-> JStr("p1"), topic |-> JStr("help"),
                     content |-> JStr(ShortContent)])>>),
      JDict([status |-> JStr("success"),
             requests |-> JList(<<JDict([request_id |-> JStr("p1"), topic |-> JStr("help"),
                                         content |-> JStr(LongContent)])>>)]) }
ServerOk == JDict([status |-> JStr("success")])
\* {'status': 'success', 'subscription_count': 1, 'subscriptions': ['help']}, or the
\* bare list
ServerSubscriptions ==
    { JDict([status |-> JStr("success"), subscription_count |-> JNum(1),
             subscriptions |-> JList(<<JStr("help")>>)]),
      JList(<<JStr("help")>>) }
\* {"status": "success", "request_count": 0, "requests": []}
ServerMyRequests ==
    { JDict([status |-> JStr("success"), request_count |-> JNum(0),
             requests |-> JList(<<>>)]) }
\* {"status": "success", "message_count": 0, "responses": []}, or a plain text
ServerReceivedResponses ==
    { JDict([status |-> JStr("success"), message_count |-> JNum(0),
             responses |-> JList(<<>>)]),
      JStr("no messages") }
Responses(req) ==
    IF req.method = "POST" \/ req.path \in {"/stats", "/topics"} THEN {ServerOk}
    ELSE IF \E id \in DOMAIN session_users : req = SubscriptionsRequest(id)
    THEN ServerSubscriptions
    ELSE IF \E id \in DOMAIN session_users : req = MyRequestsRequest(id)
    THEN ServerMyRequests
    ELSE IF \E id \in DOMAIN session_users : req = ReceivedResponsesRequest(id)
    THEN ServerReceivedResponses
    ELSE ServerFeeds

\* ---- results, as the caller can tell them apart ----
NoResult == [kind |-> "none"]
\* "❌ 请输入话题名称"
TopicMissing == [kind |-> "topic_missing"]
\* "❌ 请选择话题并输入帖子内容"
PostMissing == [kind |-> "post_missing"]
\* "❌ 请输入帖子ID和回复内容"
ValidationError == [kind |-> "validation_error"]
\* "❌ 帖子ID '{request_id}' 不在你关注的话题中，或者帖子不存在。..."
GuardRejection(request_id) == [kind |-> "guard_rejection", request_id |-> request_id]
\* "🎉 用户 {actual_user_id[:8]}... 成功加入{topic}话题! {json.dumps(result)}"
Subscribed(id, topic, result) ==
    [kind |-> "subscribed", who |-> First8(id), topic |-> topic, result |-> result]
\* "❌ 加入社区失败: {str(e)}"
SubscribeFailed(e) == [kind |-> "subscribe_failed", e |-> e]
\* "👋 用户 {actual_user_id[:8]}... 已离开{topic}话题 {json.dumps(result)}"
Unsubscribed(id, topic, result) ==
    [kind |-> "unsubscribed", who |-> First8(id), topic |-> topic, result |-> result]
\* "❌ 离开社区失败: {str(e)}"
UnsubscribeFailed(e) == [kind |-> "unsubscribe_failed", e |-> e]
\* "🚀 用户 {actual_user_id[:8]}... 帖子发布成功! {json.dumps(result)}"
RequestPublished(id, result) ==
    [kind |-> "request_published", who |-> First8(id), result |-> result]
\* "❌ 发布失败: {str(e)}"
PublishFailed(e) == [kind |-> "publish_failed", e |-> e]
\* "💬 用户 {actual_user_id[:8]}... 回复发布成功! {json.dumps(result)}"
ReplyPublished(id, result) == [kind |-> "reply_published", who |-> First8(id), result |-> result]
\* "❌ 应答发布失败: {str(e)}"
ReplyFailed(e) == [kind |-> "reply_failed", e |-> e]
\* "✅ 验证通过！正在回复话题 '{topic}' 中的帖子\n预览: {post_preview}\n\n{result}"
Validated(topic, preview, result) ==
    [kind |-> "validated", topic |-> topic, preview |-> preview, result |-> result]
\* [types.TextContent(type="text", text=result)]
TextContent(result) == [kind |-> "text", text |-> result]
\* [types.TextContent(type="text", text=f"订阅失败: {str(e)}")] and its likes for the
\* KeyError of a missing argument
SubscribeToolError(key) == [kind |-> "subscribe_tool_error", e |-> key]
UnsubscribeToolError(key) == [kind |-> "unsubscribe_tool_error", e |-> key]
PublishToolError(key) == [kind |-> "publish_tool_error", e |-> key]
ReplyToolError(key) == [kind |-> "reply_tool_error", e |-> key]

NoGuard == [evaluated |-> FALSE, res |-> NotFound]
IdleOp ==
    [name |-> "", pc |-> "idle", topic |-> "", title |-> "", request_id |-> "",
     content |-> "", user_id |-> None, actual |-> None, guard |-> NoGuard,
     feedErr |-> NoErr, npub |-> 0, nreq |-> 0, wouts |-> <<>>, fetches |-> <<>>,
     resps |-> <<>>, ret |-> NoResult]

\* the tools of handle_call_tool that are modelled
ToolNames ==
    {"subscribe_topic", "unsubscribe_topic", "publish_request", "publish_response",
     "get_user_info", "get_stats", "get_topics", "get_my_requests", "get_my_responses",
     "get_subscribed_requests", "launch_gradio_interface"}

\* a transport call of W begins, its previous call (if any) being over
SyncCall(req) ==
    /\ tr' = [tr EXCEPT ![W] = Sending(Entered(req), "sync", 0, OwnClient(W, 0), TRUE)]
    /\ closedClients' = closedClients \cap ReferencedBut(W)
    /\ UNCHANGED <<_client, ncalls>>

\* the response of the call that is over stays with the client
NoCall_keeps_response ==
    /\ UNCHANGED <<tr, closedClients, _client, ncalls>>
\* W has no transport call in progress any more: request, response and client are
\* locals of _make_sync_request and of the function that called it
NoCall ==
    /\ tr' = [tr EXCEPT ![W] = IdleCall]
    /\ closedClients' = closedClients \cap ReferencedBut(W)
    /\ UNCHANGED <<_client, ncalls>>

\* W's transport call is over (returned or raised)
CallOver == tr[W].pc \in {"returned", "raised"}

\* the operation returns `result` to its caller
Returns(o, result) == [o EXCEPT !.pc = "done", !.ret = result]

\* the operation's record of its transport call that is over
Over(o) ==
    [o EXCEPT !.nreq = @ + Len(tr[W].used),
              !.npub = @ + IF IsPublishResponse(tr[W].req) THEN Len(tr[W].used) ELSE 0]

\* a write function that reports success whatever became of its request
WriteResult_log_and_continue(success, failure) == success
\* try: result = _make_sync_request(...); return <success text>
\* except Exception as e: return <failure text>
WriteResult(success, failure) == IF tr[W].pc = "returned" THEN success ELSE failure

\* what the caller of the *_ui function hands on: the sync wrappers return the text
\* as it is, handle_call_tool wraps it in a TextContent
Handed(o, result) == IF o.name \in ToolNames THEN TextContent(result) ELSE result

\* subscribe_topic_ui(topic, user_id), up to the request going out
subscribe_topic_ui(o, topic, user_id) ==
    LET r == get_or_create_user_id(user_id)
    IN /\ Resolved(r)
       /\ SyncCall(SubscribeRequest(r.ret, topic))
       /\ op' = [o EXCEPT !.pc = "subscribe", !.actual = r.ret]

\* unsubscribe_topic_ui(topic, user_id), up to the request going out
unsubscribe_topic_ui(o, topic, user_id) ==
    LET r == get_or_create_user_id(user_id)
    IN /\ Resolved(r)
       /\ SyncCall(UnsubscribeRequest(r.ret, topic))
       /\ op' = [o EXCEPT !.pc = "unsubscribe", !.actual = r.ret]

\* publish_request_ui(topic, title, content, user_id), up to the request going out
publish_request_ui(o, topic, title, content, user_id) ==
    LET r == get_or_create_user_id(user_id)
    IN /\ Resolved(r)
       /\ SyncCall(PublishRequestRequest(r.ret, topic, title, content))
       /\ op' = [o EXCEPT !.pc = "publish_request", !.actual = r.ret]

\* publish_response_ui(request_id, content, user_id), up to the request going out
publish_response_ui(o, request_id, content, user_id) ==
    LET r == get_or_create_user_id(user_id)
    IN /\ Resolved(r)
       /\ SyncCall(PublishResponseRequest(r.ret, request_id, content))
       /\ op' = [o EXCEPT !.pc = "publish", !.actual = r.ret]

\* validate_post_id_in_subscribed_topics(post_id), up to the feed request going out
validate_post_id_in_subscribed_topics(o, post_id) ==
    LET r == get_or_create_user_id(None)
    IN /\ Resolved(r)
       /\ SyncCall(FeedRequest(r.ret))
       /\ op' = [o EXCEPT !.pc = "guard", !.actual = r.ret]

\* an operation begins
Begin == op.pc = "idle" /\ nops < MaxOps

\* the operation returns before any call
Rejected(o, result) ==
    /\ op' = Returns(o, result)
    /\ UNCHANGED <<trVars, umVars>>

\* arguments.get(k) and arguments.get(k, default)
Arg(arguments, k, default) == IF k \in DOMAIN arguments THEN arguments[k] ELSE default

\* sync_subscribe_topic(topic): lines 441-447
sync_subscribe_topic(topic) ==
    /\ Begin
    /\ LET o == [IdleOp EXCEPT !.name = "sync_subscribe_topic", !.topic = topic]
       IN IF strip(topic) = "" THEN Rejected(o, TopicMissing)
          ELSE subscribe_topic_ui(o, strip(topic), None)
    /\ UNCHANGED <<nops, thVars, gVars>>

\* sync_unsubscribe_topic(topic): lines 449-455
sync_unsubscribe_topic(topic) ==
    /\ Begin
    /\ LET o == [IdleOp EXCEPT !.name = "sync_unsubscribe_topic", !.topic = topic]
       IN IF strip(topic) = "" THEN Rejected(o, TopicMissing)
          ELSE unsubscribe_topic_ui(o, strip(topic), None)
    /\ UNCHANGED <<nops, thVars, gVars>>

\* sync_publish_request(topic, title, content): lines 463-469
sync_publish_request(topic, title, content) ==
    /\ Begin
    /\ LET o == [IdleOp EXCEPT !.name = "sync_publish_request", !.topic = topic,
                               !.title = title, !.content = content]
       IN IF strip(topic) = "" \/ strip(content) = "" THEN Rejected(o, PostMissing)
          ELSE publish_request_ui(o, strip(topic), strip(title), strip(content), None)
    /\ UNCHANGED <<nops, thVars, gVars>>

\* sync_publish_response_with_validation(request_id, content): lines 568-574
sync_publish_response_with_validation(request_id, content) ==
    /\ Begin
    /\ LET o == [IdleOp EXCEPT !.name = "sync_publish_response_with_validation",
                               !.request_id = request_id, !.content = content]
       IN IF strip(request_id) = "" \/ strip(content) = ""
          THEN Rejected(o, ValidationError)
          ELSE validate_post_id_in_subscribed_topics(o, strip(request_id))
    /\ UNCHANGED <<nops, thVars, gVars>>

\* the guard's fetch is over: lines 550-566, then lines 576-580
validate_returns ==
    /\ op.pc = "guard" /\ CallOver
    /\ LET res == IF tr[W].pc = "returned"
                  THEN SearchFeed(tr[W].resp, strip(op.request_id))
                  ELSE validate_except
           o == [Over(op) EXCEPT !.guard = [evaluated |-> TRUE, res |-> res],
                                 !.feedErr = tr[W].err]
       IN IF ~res.allowed
          THEN /\ op' = Returns(o, GuardRejection(op.request_id))
               /\ NoCall
               /\ UNCHANGED umVars
          ELSE publish_response_ui(o, strip(op.request_id), strip(op.content), None)
    /\ UNCHANGED <<nops, thVars, gVars>>

\* sync_publish_response(request_id, content): lines 471-477
sync_publish_response(request_id, content) ==
    /\ Begin
    /\ LET o == [IdleOp EXCEPT !.name = "sync_publish_response",
                               !.request_id = request_id, !.content = content]
       IN IF strip(request_id) = "" \/ strip(content) = ""
          THEN Rejected(o, ValidationError)
          ELSE publish_response_ui(o, strip(request_id), strip(content), None)
    /\ UNCHANGED <<nops, thVars, gVars>>

\* handle_call_tool("subscribe_topic", arguments): lines 1060-1068; arguments is a
\* dict that may lack any of its keys
call_tool_subscribe_topic(arguments) ==
    /\ Begin
    /\ LET user_id == Arg(arguments, "user_id", None)
           o == [IdleOp EXCEPT !.name = "subscribe_topic", !.user_id = user_id,
                               !.topic = Arg(arguments, "topic", "")]
       IN IF "topic" \notin DOMAIN arguments
          THEN Rejected(o, SubscribeToolError("topic"))
          ELSE subscribe_topic_ui(o, arguments.topic, user_id)
    /\ UNCHANGED <<nops, thVars, gVars>>

\* handle_call_tool("unsubscribe_topic", arguments): lines 1070-1078
call_tool_unsubscribe_topic(arguments) ==
    /\ Begin
    /\ LET user_id == Arg(arguments, "user_id", None)
           o == [IdleOp EXCEPT !.name = "unsubscribe_topic", !.user_id = user_id,
                               !.topic = Arg(arguments, "topic", "")]
       IN IF "topic" \notin DOMAIN arguments
          THEN Rejected(o, UnsubscribeToolError("topic"))
          ELSE unsubscribe_topic_ui(o, arguments.topic, user_id)
    /\ UNCHANGED <<nops, thVars, gVars>>

\* handle_call_tool("publish_request", arguments): lines 1088-1098
call_tool_publish_request(arguments) ==
    /\ Begin
    /\ LET user_id == Arg(arguments, "user_id", None)
           title == Arg(arguments, "title", "")
           o == [IdleOp EXCEPT !.name = "publish_request", !.user_id = user_id,
                               !.topic = Arg(arguments, "topic", ""),
                               !.content = Arg(arguments, "content", ""),
                               !.title = title]
       IN IF "topic" \notin DOMAIN arguments
          THEN Rejected(o, PublishToolError("topic"))
          ELSE IF "content" \notin DOMAIN arguments
          THEN Rejected(o, PublishToolError("content"))
          ELSE publish_request_ui(o, arguments.topic, title, arguments.content, user_id)
    /\ UNCHANGED <<nops, thVars, gVars>>

\* handle_call_tool("publish_response", arguments): lines 1100-1109
call_tool_publish_response(arguments) ==
    /\ Begin
    /\ LET user_id == Arg(arguments, "user_id", None)
           o == [IdleOp EXCEPT !.name = "publish_response", !.user_id = user_id,
                               !.request_id = Arg(arguments, "request_id", ""),
                               !.content = Arg(arguments, "content", "")]
       IN IF "request_id" \notin DOMAIN arguments
          THEN Rejected(o, ReplyToolError("request_id"))
          ELSE IF "content" \notin DOMAIN arguments
          THEN Rejected(o, ReplyToolError("content"))
          ELSE publish_response_ui(o, arguments.request_id, arguments.content, user_id)
    /\ UNCHANGED <<nops, thVars, gVars>>

\* the argument as the *_ui function received it: the sync wrappers strip it
UiArg(o, s) == IF o.name \in ToolNames THEN s ELSE strip(s)

\* the *_ui function's request is over and the operation returns
WriteReturns(result) ==
    /\ CallOver
    /\ op' = Returns([Over(op) EXCEPT !.wouts = tr[W].outs], result)
    /\ NoCall
    /\ UNCHANGED <<nops, umVars, thVars, gVars>>

\* subscribe_topic_ui: lines 161-163
subscribe_topic_ui_returns ==
    /\ op.pc = "subscribe"
    /\ WriteReturns(Handed(op,
           WriteResult(Subscribed(op.actual, UiArg(op, op.topic), tr[W].resp),
                       SubscribeFailed(tr[W].err))))

\* unsubscribe_topic_ui: lines 173-175
unsubscribe_topic_ui_returns ==
    /\ op.pc = "unsubscribe"
    /\ WriteReturns(Handed(op,
           WriteResult(Unsubscribed(op.actual, UiArg(op, op.topic), tr[W].resp),
                       UnsubscribeFailed(tr[W].err))))

\* publish_request_ui: lines 200-202
publish_request_ui_returns ==
    /\ op.pc = "publish_request"
    /\ WriteReturns(Handed(op,
           WriteResult(RequestPublished(op.actual, tr[W].resp),
                       PublishFailed(tr[W].err))))

\* publish_response_ui: lines 216-218, and what its caller makes of the returned text
publish_response_ui_returns ==
    /\ op.pc = "publish"
    /\ LET result == WriteResult(ReplyPublished(op.actual, tr[W].resp),
                                 ReplyFailed(tr[W].err))
       IN WriteReturns(IF op.name = "sync_publish_response_with_validation"
                       THEN Validated(op.guard.res.topic, op.guard.res.preview, result)
                       ELSE Handed(op, result))

\* ---- the feed readers: get_available_post_ids, refresh_posts ----
\* if post_id:   (the truth value of a JSON value)
JTruthy(v) ==
    CASE v.t = "null" -> FALSE
      [] v.t = "str" -> v.s # ""
      [] v.t = "num" -> v.n # 0
      [] v.t = "bool" -> v.b
      [] v.t = "list" -> v.l # <<>>
      [] v.t = "dict" -> DOMAIN v.d # {}

\* line 526: req.get("request_id"); line 532: req.get("id", req.get("request_id"))
EntryPostId(shape, e) ==
    IF shape = "dict" THEN Get(e, "request_id", JNull)
    ELSE Get(e, "id", Get(e, "request_id", JNull))

\* for req in ...: if isinstance(req, dict): ...; if post_id: post_ids.append(post_id)
RECURSIVE CollectPostIds(_, _, _)
CollectPostIds(shape, l, i) ==
    IF i > Len(l) THEN <<>>
    ELSE LET rest == CollectPostIds(shape, l, i + 1)
         IN IF IsDict(l[i]) /\ JTruthy(EntryPostId(shape, l[i]))
            THEN <<EntryPostId(shape, l[i])>> \o rest
            ELSE rest

\* except Exception: return []   (lines 538-540)
get_available_post_ids_except == <<>>

\* lines 522-536, on the value the feed fetch returned
PostIdsOf(feed) ==
    IF IsDict(feed)
    THEN LET requests_list == Get(feed, "requests", JList(<<>>))
         IN IF IsList(requests_list) THEN CollectPostIds("dict", requests_list.l, 1)
            ELSE IF requests_list.t \in {"str", "dict"} THEN <<>>   \* iterates, no dict in it
            ELSE get_available_post_ids_except                      \* not iterable
    ELSE IF IsList(feed) THEN CollectPostIds("list", feed.l, 1)
    ELSE <<>>

\* the list get_available_post_ids returns
PostIdList(ids) == [kind |-> "post_ids", ids |-> ids]

\* the characters of the content a choice's label keeps, and of the publisher
LabelLen == 30
PublisherLen == 8

\* what len() and slicing accept
Sized(v) == v.t \in {"str", "list", "dict"}

\* content[:30] + "..." if len(content) > 30 else content; Raised where it raises
\* TypeError
Raised == [t |-> "raised"]
ContentPreview(content) ==
    IF ~Sized(content) THEN Raised
    ELSE IF IsStr(content)
    THEN IF Len(content.s) > LabelLen THEN JStr(Prefix(content.s, LabelLen) \o "...")
         ELSE content
    ELSE IF IsList(content)
    THEN IF Len(content.l) > LabelLen THEN Raised ELSE content
    ELSE IF Cardinality(DOMAIN content.d) > LabelLen THEN Raised ELSE content

\* publisher[:8]
PublisherPrefix(publisher) ==
    IF IsStr(publisher) THEN JStr(Prefix(publisher.s, PublisherLen))
    ELSE IF IsList(publisher)
    THEN JList(IF Len(publisher.l) > PublisherLen
               THEN SubSeq(publisher.l, 1, PublisherLen) ELSE publisher.l)
    ELSE Raised

\* f"[{topic}] {content_preview} - by {publisher[:8]}..."
DisplayLabel(topic, preview, by) ==
    [label |-> "post", topic |-> topic, preview |-> preview, by |-> by]
\* "暂无可回复的帖子"
NoPostsLabel == [label |-> "no_posts"]

\* (display_label, post_id)
Choice(label, value) == [label |-> label, value |-> value]

\* lines 756-759 and 775-778: the fields of an entry
EntryPublisher(shape, e) ==
    IF shape = "dict" THEN Get(e, "publisher_user_id", JStr(""))
    ELSE Get(e, "user_id", Get(e, "publisher_user_id", JStr("")))

\* the choices of lines 754-789, or the TypeError raised on the way
Collected(choices) == [raised |-> FALSE, choices |-> choices]
CollectRaised == [raised |-> TRUE, choices |-> <<>>]
RECURSIVE CollectChoices(_, _, _)
CollectChoices(shape, l, i) ==
    IF i > Len(l) THEN Collected(<<>>)
    ELSE LET e == l[i]
             post_id == EntryPostId(shape, e)
             preview == ContentPreview(Get(e, "content", JStr("")))
             by == PublisherPrefix(EntryPublisher(shape, e))
             rest == CollectChoices(shape, l, i + 1)
         IN IF ~(IsDict(e) /\ JTruthy(post_id)) THEN rest
            ELSE IF preview = Raised \/ by = Raised \/ rest.raised THEN CollectRaised
            ELSE Collected(
                     <<Choice(DisplayLabel(Get(e, "topic", JStr("")), preview, by), post_id)>>
                     \o rest.choices)

\* except Exception: return [], []   (lines 791-793)
get_available_posts_with_info_except == <<>>

\* the choices get_available_posts_with_info returns for a fetched feed value
ChoicesOf(feed) ==
    LET c == IF IsDict(feed)
             THEN LET requests_list == Get(feed, "requests", JList(<<>>))
                  IN IF IsList(requests_list)
                     THEN CollectChoices("dict", requests_list.l, 1)
                     ELSE IF requests_list.t \in {"str", "dict"} THEN Collected(<<>>)
                     ELSE CollectRaised
             ELSE IF IsList(feed) THEN CollectChoices("list", feed.l, 1)
             ELSE Collected(<<>>)
    IN IF c.raised THEN get_available_posts_with_info_except ELSE c.choices

\* gr.update(choices=..., value=None)
GrUpdate(choices) == [kind |-> "update", choices |-> choices, value |-> None]

\* refresh_posts: lines 800-805
RefreshResult(choices) ==
    IF choices # <<>> THEN GrUpdate(choices)
    ELSE GrUpdate(<<Choice(NoPostsLabel, JStr(""))>>)

\* get_available_post_ids(user_id), up to the feed request going out: lines 516-520
get_available_post_ids(user_id) ==
    /\ Begin
    /\ LET r == get_or_create_user_id(user_id)
       IN /\ Resolved(r)
          /\ SyncCall(FeedRequest(r.ret))
          /\ op' = [IdleOp EXCEPT !.name = "get_available_post_ids", !.pc = "post_ids",
                                  !.user_id = user_id, !.actual = r.ret]
    /\ UNCHANGED <<nops, thVars, gVars>>

\* refresh_posts calls get_available_posts_with_info, up to the feed request going
\* out: lines 744-749
refresh_posts ==
    /\ Begin
    /\ LET r == get_or_create_user_id(None)
       IN /\ Resolved(r)
          /\ SyncCall(FeedRequest(r.ret))
          /\ op' = [IdleOp EXCEPT !.name = "refresh_posts", !.pc = "posts_info",
                                  !.actual = r.ret]
    /\ UNCHANGED <<nops, thVars, gVars>>

\* the operation's record of its fetch that is over
Fetched(o) ==
    [Over(o) EXCEPT !.fetches = Append(@, tr[W].err),
                    !.resps = IF tr[W].pc = "returned" THEN Append(@, tr[W].resp) ELSE @]

\* get_available_post_ids: the fetch is over, lines 522-540
get_available_post_ids_returns ==
    /\ op.pc = "post_ids" /\ CallOver
    /\ op' = Returns(Fetched(op),
                     PostIdList(IF tr[W].pc = "returned" THEN PostIdsOf(tr[W].resp)
                                ELSE get_available_post_ids_except))
    /\ NoCall
    /\ UNCHANGED <<nops, umVars, thVars, gVars>>

\* get_available_posts_with_info: the fetch is over, lines 751-793; refresh_posts
\* makes its update of the choices
refresh_posts_returns ==
    /\ op.pc = "posts_info" /\ CallOver
    /\ op' = Returns(Fetched(op),
                     RefreshResult(IF tr[W].pc = "returned" THEN ChoicesOf(tr[W].resp)
                                   ELSE get_available_posts_with_info_except))
    /\ NoCall
    /\ UNCHANGED <<nops, umVars, thVars, gVars>>

\* ---- get_user_info_ui ----
\* the four fetches with the feed asked for first
UserInfoRequests_feed_first(id) ==
    <<FeedRequest(id), SubscriptionsRequest(id), MyRequestsRequest(id),
      ReceivedResponsesRequest(id)>>
\* the four fetches, in the order they are made
UserInfoRequests(id) ==
    <<SubscriptionsRequest(id), MyRequestsRequest(id), FeedRequest(id),
      ReceivedResponsesRequest(id)>>

\* resp.get(key, 0) for an object, len(resp) for a list, 0 otherwise
CountOf(resp, key) ==
    IF IsDict(resp) THEN Get(resp, key, JNum(0))
    ELSE IF IsList(resp) THEN JNum(Len(resp.l))
    ELSE JNum(0)

\* subscriptions_response.get('subscriptions', []), the list itself, or []
SubscriptionList(resp) ==
    IF IsDict(resp) THEN Get(resp, "subscriptions", JList(<<>>))
    ELSE IF IsList(resp) THEN resp
    ELSE JList(<<>>)

\* the record made up for an identity that is not registered (未知用户_<id[:8]>)
UnknownRecord(target, t) ==
    LET id == IF Truthy(target) THEN target ELSE "unknown"
    IN [user_id |-> id, created_at |-> t, display_name |-> "unknown_user_" \o First8(id)]

\* a lookup that registers the record it makes up
get_user_info_registers(user_id) ==
    LET target == IF Truthy(user_id) THEN user_id ELSE default_user_id
    IN IF Truthy(target) /\ target \in DOMAIN session_users
       THEN [ret |-> session_users[target], users |-> session_users, now |-> now]
       ELSE [ret |-> UnknownRecord(target, now),
             users |-> Store(session_users, target, UnknownRecord(target, now)),
             now |-> now + 1]
\* UserManager.get_user_info(user_id): lines 61-72; what it returns, and the registry
\* and the clock after it
get_user_info(user_id) ==
    LET target == IF Truthy(user_id) THEN user_id ELSE default_user_id
    IN IF Truthy(target) /\ target \in DOMAIN session_users
       THEN [ret |-> session_users[target], users |-> session_users, now |-> now]
       ELSE [ret |-> UnknownRecord(target, now), users |-> session_users, now |-> now + 1]

\* UserManager.get_display_name(user_id): lines 74-77
get_display_name(user_id) == get_user_info(user_id).ret.display_name

\* json.dumps(info): lines 403-419
UserInfo(id, resps) ==
    [kind |-> "user_info", user_id |-> id, display_name |-> get_display_name(id),
     subscription_count |-> CountOf(resps[1], "subscription_count"),
     published_posts_count |-> CountOf(resps[2], "request_count"),
     feed_posts_count |-> CountOf(resps[3], "message_count"),
     received_replies_count |-> CountOf(resps[4], "message_count"),
     subscription_list |-> SubscriptionList(resps[1]),
     details |-> resps]

\* "❌ 获取用户信息失败: {str(e)}"
UserInfoFailed(e) == [kind |-> "user_info_failed", e |-> e]

\* an except clause that goes on with what was fetched, null for the rest
get_user_info_ui_except_partial(o, e) ==
    UserInfo(o.actual, [i \in 1..4 |-> IF i <= Len(o.resps) THEN o.resps[i] ELSE JNull])
\* except Exception as e: return f"❌ 获取用户信息失败: {str(e)}"   (lines 421-422)
get_user_info_ui_except(o, e) == UserInfoFailed(e)

\* get_user_info_ui(user_id), up to its first request going out: lines 345-351
get_user_info_ui(o, user_id) ==
    LET r == get_or_create_user_id(user_id)
    IN /\ Resolved(r)
       /\ SyncCall(UserInfoRequests(r.ret)[1])
       /\ op' = [o EXCEPT !.pc = "user_info", !.actual = r.ret]

\* sync_get_user_info(): lines 497-501
sync_get_user_info ==
    /\ Begin
    /\ get_user_info_ui([IdleOp EXCEPT !.name = "sync_get_user_info"], None)
    /\ UNCHANGED <<nops, thVars, gVars>>

\* handle_call_tool("get_user_info", arguments): lines 1111-1118
call_tool_get_user_info(arguments) ==
    /\ Begin
    /\ LET user_id == Arg(arguments, "user_id", None)
       IN get_user_info_ui([IdleOp EXCEPT !.name = "get_user_info", !.user_id = user_id],
                           user_id)
    /\ UNCHANGED <<nops, thVars, gVars>>

\* one fetch of get_user_info_ui is over: the next one goes out, or the summary is
\* built (lines 368-419), or the except clause returns
get_user_info_ui_fetched ==
    /\ op.pc = "user_info" /\ CallOver
    /\ LET o == Fetched(op)
           n == Len(o.fetches)
       IN IF tr[W].pc = "raised"
          THEN /\ op' = Returns(o, Handed(o, get_user_info_ui_except(o, tr[W].err)))
               /\ NoCall
          ELSE IF n < Len(UserInfoRequests(op.actual))
          THEN /\ op' = o
               /\ SyncCall(UserInfoRequests(op.actual)[n + 1])
          ELSE /\ op' = Returns(o, Handed(o, UserInfo(o.actual, o.resps)))
               /\ NoCall
    /\ UNCHANGED <<nops, umVars, thVars, gVars>>

(***************************************************************************)
(* The presentation adapter: what get_my_requests_ui, get_my_responses_ui  *)
(* and get_subscribed_requests_ui make of the value they fetched           *)
(***************************************************************************)
Adapters == {"get_my_requests_ui", "get_my_responses_ui", "get_subscribed_requests_ui"}

\* the display record of a post of mine: 帖子ID, 标题, 内容, 话题, 发布时间, 状态
MyRequestRecord(req) ==
    JDict([post_id |-> Get(req, "id", JStr("N/A")),
           title |-> Get(req, "title", JStr("untitled")),
           content |-> Get(req, "content", JStr("")),
           topic |-> Get(req, "topic", JStr("")),
           created_at |-> Get(req, "created_at", JStr("")),
           status |-> Get(req, "status", JStr(""))])

\* the display record of a reply: 回复ID, 原帖ID, 回复内容, 回复者, 回复时间
MyResponseRecord(resp) ==
    JDict([reply_id |-> Get(resp, "id", JStr("N/A")),
           post_id |-> Get(resp, "request_id", JStr("N/A")),
           content |-> Get(resp, "content", JStr("")),
           replier |-> Get(resp, "user_id", JStr("")),
           created_at |-> Get(resp, "created_at", JStr(""))])

\* the display record of a post of the feed: 帖子ID, 标题, 内容, 话题, 发布者, 发布时间,
\* 状态
FeedRecord(req) ==
    JDict([post_id |-> Get(req, "id", JStr("N/A")),
           title |-> Get(req, "title", JStr("untitled")),
           content |-> Get(req, "content", JStr("")),
           topic |-> Get(req, "topic", JStr("")),
           publisher |-> Get(req, "user_id", JStr("")),
           created_at |-> Get(req, "created_at", JStr("")),
           status |-> Get(req, "status", JStr(""))])

DisplayRecord(f, e) ==
    IF f = "get_my_requests_ui" THEN MyRequestRecord(e)
    ELSE IF f = "get_my_responses_ui" THEN MyResponseRecord(e)
    ELSE FeedRecord(e)

\* a loop that keeps the dict entries only
Formatted_dicts_only(f, l) ==
    LET F[i \in 0..Len(l)] ==
            IF i = 0 THEN <<>>
            ELSE IF IsDict(l[i]) THEN Append(F[i - 1], DisplayRecord(f, l[i]))
            ELSE F[i - 1]
    IN F[Len(l)]
\* for req in requests: if isinstance(req, dict): formatted.append({...})
\*                      else: formatted.append(req)
Formatted(f, l) ==
    LET F[i \in 0..Len(l)] ==
            IF i = 0 THEN <<>>
            ELSE IF IsDict(l[i]) THEN Append(F[i - 1], DisplayRecord(f, l[i]))
            ELSE Append(F[i - 1], l[i])
    IN F[Len(l)]

\* f"📝 我的帖子:\n{requests}" and its likes: the heading of f, then the string
HeadedText(f, s) == [kind |-> "text", heading |-> f, s |-> s]
\* "📝 你还没有发布任何帖子", "📬 暂无收到的回复", "📥 你的Feed中暂无新帖子"
NothingHere(f) == [kind |-> "nothing_here", of |-> f]
\* json.dumps(v, ensure_ascii=False, indent=2): the JSON text of v
JsonText(v) == [kind |-> "json", value |-> v]
\* "❌ 获取我的需求失败: {str(e)}" and its likes
AdapterFailed(f, e) == [kind |-> "adapter_failed", of |-> f, e |-> e]
\* an exception that leaves the function
Propagated(e) == [kind |-> "raised", e |-> e]

\* an except clause that raises again
adapter_except_reraise(f, e) == Propagated(e)
\* except Exception as e: return f"❌ ...: {str(e)}"
adapter_except(f, e) == AdapterFailed(f, e)

\* len(v) raises TypeError for a number, a boolean
HasLen(v) == v.t \in {"str", "list", "dict"}

\* lines 228-256 (269-296, 310-338) on the fetched value v
Present(f, v) ==
    IF IsStr(v) THEN HeadedText(f, v.s)
    ELSE IF ~JTruthy(v) THEN NothingHere(f)
    ELSE IF ~HasLen(v) THEN adapter_except(f, "TypeError")
    ELSE IF IsList(v) THEN JsonText(JList(Formatted(f, v.l)))
    ELSE JsonText(v)

\* ---- user_manager.get_display_name, called on its own ----
DisplayName(name) == [kind |-> "display_name", name |-> name]

\* user_manager.get_display_name(user_id), which calls get_user_info(user_id)
user_manager_get_display_name(user_id) ==
    /\ Begin
    /\ LET r == get_user_info(user_id)
       IN /\ op' = Returns([IdleOp EXCEPT !.name = "get_display_name", !.user_id = user_id],
                           DisplayName(r.ret.display_name))
          /\ session_users' = r.users
          /\ now' = r.now
    /\ UNCHANGED <<default_user_id, nuuid, trVars, nops, thVars, gVars>>

\* ---- get_stats ----
\* json.dumps(result, ensure_ascii=False, indent=2) of what /stats answered
StatsText(result) == [kind |-> "stats", result |-> result]
\* "❌ 获取统计信息失败: {str(e)}"
StatsFailed(e) == [kind |-> "stats_failed", e |-> e]
\* the local statistics of handle_call_tool's except clause: status "partial" and
\* len(user_manager.session_users)
LocalStats(n) == [kind |-> "local_stats", status |-> "partial", session_users |-> n]

\* get_stats_ui(): the request is over; both the try and the except clause return
get_stats_ui ==
    IF tr[W].pc = "returned" THEN StatsText(tr[W].resp) ELSE StatsFailed(tr[W].err)

\* handle_call_tool("get_stats", arguments), up to the request of get_stats_ui going
\* out
call_tool_get_stats ==
    /\ Begin
    /\ SyncCall(StatsRequest)
    /\ op' = [IdleOp EXCEPT !.name = "get_stats", !.pc = "stats"]
    /\ UNCHANGED <<nops, umVars, thVars, gVars>>

\* handle_call_tool("get_stats"): result = get_stats_ui(); return the text. Its
\* except clause (the local statistics) is entered only when get_stats_ui raises,
\* which it does not.
call_tool_get_stats_returns ==
    /\ op.pc = "stats" /\ CallOver
    /\ op' = Returns(Fetched(op), TextContent(get_stats_ui))
    /\ NoCall
    /\ UNCHANGED <<nops, umVars, thVars, gVars>>

\* ---- get_topics ----
\* "GET", "/topics"
TopicsRequest == Request("GET", "/topics", NoJson)
\* json.dumps(result, ensure_ascii=False, indent=2) of what /topics answered
TopicsText(result) == [kind |-> "topics", result |-> result]
\* "❌ 获取topics失败: {str(e)}"
TopicsFailed(e) == [kind |-> "topics_failed", e |-> e]

\* handle_call_tool("get_topics", arguments), up to the request of get_topics_ui
\* going out
call_tool_get_topics ==
    /\ Begin
    /\ SyncCall(TopicsRequest)
    /\ op' = [IdleOp EXCEPT !.name = "get_topics", !.pc = "topics"]
    /\ UNCHANGED <<nops, umVars, thVars, gVars>>

\* get_topics_ui returns from its try or its except clause; the handler returns the
\* text
call_tool_get_topics_returns ==
    /\ op.pc = "topics" /\ CallOver
    /\ op' = Returns(Fetched(op),
                     TextContent(IF tr[W].pc = "returned" THEN TopicsText(tr[W].resp)
                                 ELSE TopicsFailed(tr[W].err)))
    /\ NoCall
    /\ UNCHANGED <<nops, umVars, thVars, gVars>>

\* ---- get_my_requests, get_my_responses, get_subscribed_requests ----
\* the fetch of the adapter function f for the user
AdapterRequest(f, id) ==
    IF f = "get_my_requests_ui" THEN MyRequestsRequest(id)
    ELSE IF f = "get_my_responses_ui" THEN ReceivedResponsesRequest(id)
    ELSE FeedRequest(id)

\* handle_call_tool(name, arguments) for the three tools: user_id =
\* arguments.get("user_id"), then the adapter function up to its request going out
call_tool_adapter(f, name, arguments) ==
    /\ Begin
    /\ LET user_id == Arg(arguments, "user_id", None)
           r == get_or_create_user_id(user_id)
       IN /\ Resolved(r)
          /\ SyncCall(AdapterRequest(f, r.ret))
          /\ op' = [IdleOp EXCEPT !.name = name, !.pc = "adapter", !.user_id = user_id,
                                  !.actual = r.ret]
    /\ UNCHANGED <<nops, thVars, gVars>>

\* the adapter function's fetch is over: it returns what it makes of the value, or
\* its failure text; the handler returns the text
call_tool_adapter_returns ==
    /\ op.pc = "adapter" /\ CallOver
    /\ LET f == op.name \o "_ui"
       IN op' = Returns(Fetched(op),
                        TextContent(IF tr[W].pc = "returned" THEN Present(f, tr[W].resp)
                                    ELSE adapter_except(f, tr[W].err.kind)))
    /\ NoCall
    /\ UNCHANGED <<nops, umVars, thVars, gVars>>

\* ---- launch_gradio_interface, unknown tools, the handler's own except clause ----
\* "✅ Gradio界面已启动！ 访问地址: http://localhost:{port} ..."
GradioStarted(port, share) == [kind |-> "gradio_started", port |-> port, share |-> share]
\* f"未知的工具: {name}"
UnknownTool(name) == [kind |-> "unknown_tool", name |-> name]
\* an exception that leaves handle_call_tool
ToolRaised(e) == [kind |-> "raised", e |-> e]

\* an except clause that raises again
handle_call_tool_except_reraise(e) == ToolRaised(e)
\* except Exception as e: return [TextContent(text=f"错误: {str(e)}")]
handle_call_tool_except(e) == TextContent([kind |-> "tool_failed", e |-> e])

\* the ports a caller asks for; 7860 when the argument is left out
DefaultPort == 7860
LaunchArguments == {<<>>, [port |-> 8080, share |-> TRUE]}

\* handle_call_tool("launch_gradio_interface", arguments): the thread starts, or
\* thread.start() raises RuntimeError (no thread can be started), which only the
\* handler's own except clause catches
call_tool_launch_gradio_interface(arguments) ==
    /\ Begin
    /\ \E started \in BOOLEAN :
          LET port == Arg(arguments, "port", DefaultPort)
              share == Arg(arguments, "share", FALSE)
              o == [IdleOp EXCEPT !.name = "launch_gradio_interface"]
          IN Rejected(o, IF started THEN TextContent(GradioStarted(port, share))
                         ELSE handle_call_tool_except("RuntimeError"))
    /\ UNCHANGED <<nops, thVars, gVars>>

\* names that are no tool of the server
UnknownToolNames == {"get_topic", "delete_topic"}

\* handle_call_tool(name, arguments) for a name none of the branches tests for
call_tool_unknown(name) ==
    /\ Begin
    /\ Rejected([IdleOp EXCEPT !.name = name], TextContent(UnknownTool(name)))
    /\ UNCHANGED <<nops, thVars, gVars>>

\* the caller has the result; the next operation may begin
OpDone ==
    /\ op.pc = "done"
    /\ op' = IdleOp
    /\ nops' = nops + 1
    /\ UNCHANGED <<trVars, umVars, thVars, gVars>>

\* the arguments the operations are invoked with
UiPostIds == {"", "p1", " p1 ", "p2"}
UiContents == {" ", "hi"}
UiTopics == {"", " help "}
UiTitles == {"", "t"}
ToolArguments ==
    {Merge(a, Merge(b, c)) :
        a \in {<<>>, [request_id |-> "p1"], [request_id |-> "p2"], [request_id |-> ""]},
        b \in {<<>>, [content |-> "hi"]},
        c \in {<<>>, [user_id |-> "ua"]}}
TopicToolArguments ==
    {Merge(a, Merge(b, c)) :
        a \in {<<>>, [topic |-> "help"], [topic |-> ""]},
        b \in {<<>>, [content |-> "hi"], [content |-> "hi", title |-> "t"]},
        c \in {<<>>, [user_id |-> "ua"]}}

InitOps == op = IdleOp /\ nops = 0

\* W's request in flight is answered
Answered == \E o \in Outcomes : \E v \in IF o = "ok" THEN Responses(tr[W].req) ELSE {JNull} :
                Recv(W, o, v)

Next ==
    \/ \E request_id \in UiPostIds, content \in UiContents :
          \/ sync_publish_response_with_validation(request_id, content)
          \/ sync_publish_response(request_id, content)
    \/ \E topic \in UiTopics :
          \/ sync_subscribe_topic(topic)
          \/ sync_unsubscribe_topic(topic)
          \/ \E title \in UiTitles, content \in UiContents :
                sync_publish_request(topic, title, content)
    \/ \E arguments \in ToolArguments : call_tool_publish_response(arguments)
    \/ \E arguments \in TopicToolArguments :
          \/ call_tool_subscribe_topic(arguments)
          \/ call_tool_unsubscribe_topic(arguments)
          \/ call_tool_publish_request(arguments)
    \/ \E user_id \in {None} : get_available_post_ids(user_id)
    \/ refresh_posts
    \/ sync_get_user_info
    \/ \E arguments \in {<<>>, [user_id |-> "ua"]} : call_tool_get_user_info(arguments)
    \/ \E user_id \in {None, "ua", "ub"} : user_manager_get_display_name(user_id)
    \/ call_tool_get_stats
    \/ call_tool_get_topics
    \/ \E arguments \in {<<>>, [user_id |-> "ua"]} :
          \/ call_tool_adapter("get_my_requests_ui", "get_my_requests", arguments)
          \/ call_tool_adapter("get_my_responses_ui", "get_my_responses", arguments)
          \/ call_tool_adapter("get_subscribed_requests_ui", "get_subscribed_requests",
                               arguments)
    \/ \E arguments \in LaunchArguments : call_tool_launch_gradio_interface(arguments)
    \/ \E name \in UnknownToolNames : call_tool_unknown(name)
    \/ Answered
    \/ Wake(W)
    \/ validate_returns
    \/ get_available_post_ids_returns
    \/ refresh_posts_returns
    \/ get_user_info_ui_fetched
    \/ call_tool_get_stats_returns
    \/ call_tool_get_topics_returns
    \/ call_tool_adapter_returns
    \/ subscribe_topic_ui_returns
    \/ unsubscribe_topic_ui_returns
    \/ publish_request_ui_returns
    \/ publish_response_ui_returns
    \/ OpDone

(***************************************************************************)
(* The values the presentation adapter is applied to                       *)
(***************************************************************************)
\* ---- the values SpecAdapter applies the adapter to ----
AdapterEntries ==
    { JDict([id |-> JStr("p1"), title |-> JStr("T"), content |-> JStr("c")]),
      JDict([request_id |-> JStr("p1"), user_id |-> JStr("ub")]),
      JDict(<<>>),
      JStr("junk"), JNum(7), JNull }
AdapterInputs ==
    {JList(l) : l \in SeqsUpTo(AdapterEntries, MaxListLen)}
    \cup {JStr(""), JStr("no messages"),
          JDict(<<>>), JDict([status |-> JStr("success"), requests |-> JList(<<>>)]),
          JNum(0), JNum(5), JBool(FALSE), JBool(TRUE), JNull}

NoAdapterInput == [f |-> "", v |-> JNull]
NoAdapterOutput == [done |-> FALSE, res |-> NothingHere("")]

\* the adapter applied to a fetched value
Normalize ==
    /\ ~aout.done
    /\ ain # NoAdapterInput
    /\ aout' = [done |-> TRUE, res |-> Present(ain.f, ain.v)]
    /\ UNCHANGED <<ain, gin, gout, trVars, umVars, thVars, opVars>>

InitAdapterIdle == ain = NoAdapterInput /\ aout = NoAdapterOutput

NextAdapter == Normalize

InitTransport ==
    /\ tr = [p \in Procs |-> IdleCall]
    /\ _client = NoClient
    /\ closedClients = {}
    /\ ncalls = 0

\* the module is loaded: user_manager = UserManager(), message_client =
\* MessageServiceClient()
Init ==
    /\ InitUserManager /\ InitThreads /\ InitTransport /\ InitGuardIdle /\ InitOps
    /\ InitAdapterIdle

\* the operations, carried out one after the other
Spec == Init /\ [][Next]_vars

NextTransport ==
    \E p \in Callers :
        \/ \E k \in {"sync", "async"} : StartCall(p, k, MaxCalls)
        \/ \E o \in Outcomes : Recv(p, o, StatsBody)
        \/ AsyncCloseDone(p)
        \/ Wake(p)
        \/ FinishCall(p)

SpecTransport == Init /\ [][NextTransport]_vars

\* coroutines awaiting message_client._make_request concurrently
NextShared ==
    \E p \in Coroutines :
        \/ StartCall(p, "async", MaxAsyncCalls)
        \/ \E o \in Outcomes : Recv(p, o, StatsBody)
        \/ AsyncCloseDone(p)
        \/ Wake(p)
        \/ FinishCall(p)

SpecShared == Init /\ [][NextShared]_vars

\* the guard as a function of the fetched feed value and the post id
InitGuard ==
    /\ InitUserManager /\ InitThreads /\ InitTransport /\ InitOps /\ InitAdapterIdle
    /\ gin \in [feed : GuardFeeds, post_id : PostIds]
    /\ gout = NoGuardOutput

SpecGuard == InitGuard /\ [][NextGuard]_vars

\* the operations, every attempt ending (answered, failed or timed out after 30 s),
\* every sleep ending and every function going on to its next statement
SpecLive == Spec /\ WF_vars(Next)

\* threads calling user_manager.get_or_create_user_id concurrently
SpecUsers == Init /\ [][NextUsers]_vars

\* the presentation adapter as a function of the fetched value
InitAdapter ==
    /\ InitUserManager /\ InitThreads /\ InitTransport /\ InitOps /\ InitGuardIdle
    /\ ain \in [f : Adapters, v : AdapterInputs]
    /\ aout = NoAdapterOutput

SpecAdapter == InitAdapter /\ [][NextAdapter]_vars

(***************************************************************************)
(* Claims about the transport                                              *)
(***************************************************************************)
Done(c) == c.pc \in {"returned", "raised"}
AllConn(c) == \A i \in DOMAIN c.outs : c.outs[i] = "conn"
Distinct(q) == \A i, j \in DOMAIN q : i # j => q[i] # q[j]

\* C4: a transport call makes at most 3 attempts; when every attempt ends in a
\* connection failure or timeout it makes exactly 3 attempts and then raises; an
\* attempt that succeeds is the last one, and the call returns on it.
C4_AtMostThreeAttempts ==
    \A p \in Callers :
        LET c == tr[p] IN
        /\ Len(c.used) <= 3
        /\ (c.pc = "raised" /\ AllConn(c)) => Len(c.used) = 3
        /\ (AllConn(c) /\ Len(c.outs) = 3) => c.pc = "raised"
        /\ (AllConn(c) /\ Len(c.outs) < 3) => ~Done(c)
        /\ \A i \in DOMAIN c.outs :
              c.outs[i] = "ok" =>
                  i = Len(c.outs) /\ Len(c.used) = i /\ c.pc = "returned"

C4_Witness ==
    \E p \in Callers :
        tr[p].pc = "raised" /\ tr[p].outs = <<"conn", "conn", "conn">>

\* C5 (as claimed): an attempt that receives a well-formed non-2xx response is the
\* only attempt of its call: the call has raised, one request was sent and no wait
\* happened.
C5_StatusNotRetried ==
    \A p \in Callers :
        LET c == tr[p] IN
        (c.outs # <<>> /\ c.outs[1] = "status") =>
            c.pc = "raised" /\ Len(c.used) = 1 /\ c.waits = 0

\* C6: one wait between each retryable failure and the next attempt and none after
\* the last attempt: whenever a request is in flight, and when the call is over, the
\* waits so far are one fewer than the attempts so far (k failures then success:
\* k waits; 3 failures: 2 waits).
C6_OneWaitBetweenAttempts ==
    \A p \in Callers :
        LET c == tr[p] IN
        /\ (c.pc = "inflight" \/ Done(c)) => c.waits = Len(c.used) - 1
        /\ c.pc = "sleeping" => c.waits = Len(c.used)
        /\ c.pc = "closing" => c.waits = Len(c.used) - 1

C6_Witness ==
    \E p \in Callers :
        \/ tr[p].pc = "returned" /\ tr[p].outs = <<"conn", "conn", "ok">> /\ tr[p].waits = 2

\* C7 (as claimed): when a transport call is over (result returned, or raised), no
\* HTTP client opened for that call is still open.
C7_ClientReleasedOnExit ==
    \A p \in Callers : Done(tr[p]) => tr[p].opened \subseteq closedClients

\* C8: no two attempts of one call use the same client instance, and a request in
\* flight was not sent on a closed client.
C8_FreshClientPerAttempt ==
    \A p \in Callers :
        /\ Distinct(tr[p].used)
        /\ tr[p].pc = "inflight" => tr[p].cli \notin closedClients

C8_Witness ==
    \E p \in Callers :
        /\ tr[p].kind = "async" /\ tr[p].pc = "inflight" /\ Len(tr[p].used) = 3
        /\ tr[p].used[1] \in closedClients /\ tr[p].used[2] \in closedClients

\* C10 (as claimed): no coroutine's request is in flight on a client that is closed.
C10_NoInFlightOnClosedClient ==
    \A p \in Coroutines : tr[p].pc = "inflight" => tr[p].cli \notin closedClients

(***************************************************************************)
(* Claims about the identity registry                                      *)
(***************************************************************************)
OmittedDone(t) == th[t].pc = "done" /\ ~Truthy(th[t].arg)

\* C9 (as claimed): under every interleaving, the calls made with the identity
\* omitted all return the same identity, which is default_user_id.
C9_OneDefaultIdentity ==
    \A t, u \in Threads :
        (OmittedDone(t) /\ OmittedDone(u)) =>
            th[t].ret = th[u].ret /\ th[t].ret = default_user_id

\* C11 (as claimed): the registry only grows: no step removes an identity from
\* session_users or replaces the record an identity was first registered with; and a
\* call that was given an identity returns it unchanged, the identity being
\* registered from then on.
C11_RegistryOnlyGrows ==
    [][ /\ \A k \in DOMAIN session_users :
              k \in DOMAIN session_users' /\ session_users'[k] = session_users[k]
        /\ \A t \in Threads :
              (th'[t].pc = "done" /\ Truthy(th'[t].arg)) =>
                  th'[t].ret = th'[t].arg /\ th'[t].arg \in DOMAIN session_users' ]_vars

(***************************************************************************)
(* Claims about the guard                                                  *)
(***************************************************************************)
\* the entries of a feed value: the list itself, or the list under 'requests'
FeedEntries(feed) ==
    IF IsList(feed) THEN feed.l
    ELSE IF IsDict(feed) /\ IsList(Get(feed, "requests", JNull))
         THEN Get(feed, "requests", JNull).l
    ELSE <<>>

\* the feed holds an entry whose identifier ('id' or 'request_id') is post_id
FeedContains(feed, post_id) ==
    \E i \in DOMAIN FeedEntries(feed) :
        LET e == FeedEntries(feed)[i]
        IN IsDict(e) /\ (Get(e, "id", JNull) = JStr(post_id)
                         \/ Get(e, "request_id", JNull) = JStr(post_id))

\* C2 (as claimed): on a successfully fetched feed F the guard returns allowed=true
\* if and only if F holds an entry whose identifier equals the post id, whatever
\* the entry's content field is (missing and null included).
C2_AllowedIffInFeed ==
    gout.done => (gout.res.allowed <=> FeedContains(gin.feed, gin.post_id))

\* every dict entry of the feed has a content the preview can be cut from
ContentsAreText(feed) ==
    \A i \in DOMAIN FeedEntries(feed) :
        LET e == FeedEntries(feed)[i]
        IN IsDict(e) => IsStr(Get(e, "content", JStr("")))

\* C20 (as claimed): in the list-shaped feed and in the object-shaped feed alike an
\* entry matches the post id when its 'id' or its 'request_id' equals it: on a feed
\* whose entries have text contents the guard allows the reply exactly when some
\* entry carries the post id under either name.
C20_EitherIdentifierInEveryShape ==
    (gout.done /\ ContentsAreText(gin.feed)) =>
        (gout.res.allowed <=> FeedContains(gin.feed, gin.post_id))

\* the ellipsis marker the preview ends with
Ellipsis == "..."

PublishesSent ==
    op.npub + (IF IsPublishResponse(tr[W].req) THEN Len(tr[W].used) ELSE 0)

\* C1 (as claimed): whatever the entry point, a POST /responses/publish goes out
\* only in an operation whose guard was evaluated and returned allowed=true.
C1_PublishOnlyAfterGuard ==
    PublishesSent > 0 => (op.guard.evaluated /\ op.guard.res.allowed)

\* C3: when the feed fetch inside the guard fails (retries exhausted, non-2xx, or
\* unparsable body), the guard returns (False, "", "") and the reply operation ends
\* in the guard rejection without a single publish request.
C3_GuardFailsClosed ==
    op.feedErr # NoErr =>
        /\ op.guard = [evaluated |-> TRUE, res |-> GuardResult(FALSE, JStr(""), "")]
        /\ PublishesSent = 0
        /\ op.pc = "done"
        /\ op.ret = GuardRejection(op.request_id)

C3_Witness ==
    /\ op.name = "sync_publish_response_with_validation"
    /\ op.feedErr = RequestFailed("conn")
    /\ op.pc = "done"
    /\ op.ret.kind = "guard_rejection"

(***************************************************************************)
(* Claims about the operations' results                                    *)
(***************************************************************************)
\* requests of any kind the operation in progress has sent so far
RequestsSent == op.nreq + Len(tr[W].used)

\* the arguments an operation requires
Required(name) ==
    IF name \in {"sync_subscribe_topic", "sync_unsubscribe_topic",
                 "subscribe_topic", "unsubscribe_topic"} THEN {"topic"}
    ELSE IF name \in {"sync_publish_request", "publish_request"} THEN {"topic", "content"}
    ELSE IF name \in {"sync_publish_response", "sync_publish_response_with_validation",
                      "publish_response"} THEN {"request_id", "content"}
    ELSE {}

\* a required argument was omitted: blank in a UI callback, missing or empty in a
\* tool call (IdleOp holds "" for a missing key)
Omitted(o) ==
    \E k \in Required(o.name) :
        IF o.name \in ToolNames THEN o[k] = "" ELSE strip(o[k]) = ""

ErrorKinds ==
    {"topic_missing", "post_missing", "validation_error", "subscribe_tool_error",
     "unsubscribe_tool_error", "publish_tool_error", "reply_tool_error"}

\* C12 (as claimed): an operation invoked with a required argument omitted (blank
\* in the UI callbacks; missing key or empty string in a tool call) has returned an
\* error result and has sent no request.
C12_OmittedArgumentRejected ==
    (op.pc # "idle" /\ Omitted(op)) =>
        /\ RequestsSent = 0
        /\ op.pc = "done"
        /\ op.ret.kind \in ErrorKinds

\* the text of the *_ui function inside what the caller received
RECURSIVE Inner(_)
Inner(r) ==
    IF r.kind = "text" THEN Inner(r.text)
    ELSE IF r.kind = "validated" THEN Inner(r.result)
    ELSE r

SuccessKinds == {"subscribed", "unsubscribed", "request_published", "reply_published"}
FailureKinds == {"subscribe_failed", "unsubscribe_failed", "publish_failed", "reply_failed"}

\* the write request of the finished operation: its attempts' outcomes
Wrote(o) == o.pc = "done" /\ o.wouts # <<>>

EmptyFeedResults == {PostIdList(<<>>), RefreshResult(<<>>)}

\* the operation's fetch number i raised "请求失败": its last attempt failed on the
\* connection, a timeout or a non-2xx response
FetchFailed(o, i) == i \in DOMAIN o.fetches /\ o.fetches[i].kind = "request_failed"

\* C14 (as claimed): when the feed fetch of get_available_post_ids or refresh_posts
\* (get_available_posts_with_info) failed, the caller does not receive what it
\* receives for an empty feed (no post ids, 'no posts available').
C14_FetchFailureNotEmptyFeed ==
    (op.pc = "done" /\ op.name \in {"get_available_post_ids", "refresh_posts"}
                    /\ FetchFailed(op, 1))
        => op.ret \notin EmptyFeedResults

\* C15 (as claimed): the guard rejection 'post not in your feed' is returned only
\* when the feed was fetched and does not hold the post: a feed fetch that failed on
\* a non-2xx response, or on exhausted retries, is reported with another outcome.
C15_FailureKindsDistinct ==
    (op.pc = "done" /\ op.ret = GuardRejection(op.request_id)) =>
        op.feedErr.kind # "request_failed"

AllOk(fetches) == \A i \in DOMAIN fetches : fetches[i] = NoErr

\* C16: get_user_info_ui is all-or-nothing: when one of its four fetches failed it
\* returns the failure text with that fetch's error and made no further fetch; it
\* returns a summary only when all four fetches succeeded, and the summary carries
\* the four fetched values.
C16_UserInfoAllOrNothing ==
    (op.pc = "done" /\ op.name \in {"sync_get_user_info", "get_user_info"}) =>
        LET r == Inner(op.ret)
            n == Len(op.fetches)
        IN /\ r.kind \in {"user_info", "user_info_failed"}
           /\ r.kind = "user_info" <=> (n = 4 /\ AllOk(op.fetches))
           /\ r.kind = "user_info" => r.details = op.resps /\ Len(op.resps) = 4
           /\ r.kind = "user_info_failed" =>
                 /\ op.fetches[n] # NoErr /\ r.e = op.fetches[n]
                 /\ AllOk(SubSeq(op.fetches, 1, n - 1))

C16_Witness ==
    /\ op.pc = "done" /\ op.name = "sync_get_user_info"
    /\ op.fetches = <<NoErr, NoErr, RequestFailed("conn")>>
    /\ op.ret = UserInfoFailed(RequestFailed("conn"))

(***************************************************************************)
(* Claims about the presentation adapter                                   *)
(***************************************************************************)
\* C17: the presentation adapter is total: whatever the fetched value (string, list
\* of dicts, list of non-dicts, mixed list, single object, number, boolean, null),
\* it returns a value to its caller and no exception leaves it.
C17_AdapterTotal ==
    aout.done => aout.res.kind \in {"text", "nothing_here", "json", "adapter_failed"}

C17_Witness ==
    /\ aout.done
    /\ ain.v = JList(<<JDict([id |-> JStr("p1"), title |-> JStr("T"), content |-> JStr("c")]),
                       JNum(7)>>)
    /\ aout.res.kind = "json"

\* C18 (as claimed): a fetched value that is neither a string nor a list (an object,
\* the empty object included, a number, a boolean, null) is returned as its JSON
\* text, unchanged: never an error result, never the fixed 'nothing here' message.
C18_OtherShapesPassThrough ==
    (aout.done /\ ~IsStr(ain.v) /\ ~IsList(ain.v)) => aout.res = JsonText(ain.v)

\* the keys of the display record of adapter f
DisplayKeys(f) ==
    IF f = "get_my_requests_ui"
    THEN {"post_id", "title", "content", "topic", "created_at", "status"}
    ELSE IF f = "get_my_responses_ui"
    THEN {"reply_id", "post_id", "content", "replier", "created_at"}
    ELSE {"post_id", "title", "content", "topic", "publisher", "created_at", "status"}

\* C19: for a non-empty list the adapter returns the JSON text of a list of the same
\* length, in the same order: at each position a non-dict entry unchanged, and for a
\* dict entry the display record with the fixed keys, each holding the entry's value
\* for the known field or its default.
C19_ListKeepsLengthAndOrder ==
    (aout.done /\ IsList(ain.v) /\ ain.v.l # <<>>) =>
        /\ aout.res.kind = "json"
        /\ IsList(aout.res.value)
        /\ Len(aout.res.value.l) = Len(ain.v.l)
        /\ \A i \in DOMAIN ain.v.l :
              LET e == ain.v.l[i]
                  d == aout.res.value.l[i]
              IN IF IsDict(e)
                 THEN /\ IsDict(d)
                      /\ DOMAIN d.d = DisplayKeys(ain.f)
                      /\ d = DisplayRecord(ain.f, e)
                      /\ d.d.content = Get(e, "content", JStr(""))
                 ELSE d = e

C19_Witness ==
    /\ aout.done
    /\ ain.f = "get_subscribed_requests_ui"
    /\ ain.v = JList(<<JStr("junk"), JDict([request_id |-> JStr("p1"), user_id |-> JStr("ub")])>>)
    /\ aout.res.value.l[1] = JStr("junk")
    /\ aout.res.value.l[2].d.publisher = JStr("ub")

(***************************************************************************)
(* Claims about what the client keeps between operations                   *)
(***************************************************************************)
\* the operations that read the feed or the user's data
Readers ==
    {"get_available_post_ids", "refresh_posts", "sync_get_user_info", "get_user_info",
     "get_stats", "get_topics", "get_my_requests", "get_my_responses",
     "get_subscribed_requests"}

\* C22: between operations the client holds no request, response or connection: all
\* that an operation leaves behind is the identity registry; and every guard
\* evaluation and every read that returned has sent a fetch of its own in that
\* operation.
C22_NoStateBetweenOperations ==
    /\ op.pc \in {"idle", "done"} =>
          /\ tr = [p \in Procs |-> IdleCall]
          /\ _client = NoClient
          /\ closedClients = {}
    /\ op.guard.evaluated => op.nreq >= 1
    /\ op.pc = "done" /\ op.name \in Readers =>
          /\ Len(op.fetches) >= 1
          /\ op.nreq >= Len(op.fetches)

C22_Witness ==
    /\ nops >= 1 /\ op.pc = "done"
    /\ op.name = "sync_publish_response_with_validation"
    /\ op.guard.evaluated /\ op.guard.res.allowed
    /\ DOMAIN session_users # {}

(***************************************************************************)
(* Claims about what the operations send                                   *)
(***************************************************************************)
\* the request of W's transport call, while the operation is at `pc`
Sends(pc) == op.pc = pc /\ tr[W].req # NoRequest

\* the paths of the reads of user `id`
ReadPaths(id) ==
    {"/users/" \o id \o suffix :
        suffix \in {"/subscriptions", "/requests", "/received/requests",
                    "/received/responses"}}

\* C25: the request of every operation carries the identity that the operation's
\* get_or_create_user_id call returned (the supplied identity, or the session's
\* default when none was supplied) in its body or path, and topic, content and
\* request_id as the service function was called with them (the sync wrappers call
\* it with their inputs stripped); the body of a post has a title exactly when the
\* title given is not blank.
C25_IdentityAndParametersUnchanged ==
    LET json == tr[W].req.json
    IN /\ tr[W].req # NoRequest =>
             /\ op.name \notin {"get_stats", "get_topics"} =>
                   op.actual = IF Truthy(op.user_id) THEN op.user_id ELSE default_user_id
             /\ IF tr[W].req.method = "GET"
                THEN /\ json = NoJson
                     /\ \/ tr[W].req.path \in ReadPaths(op.actual)
                        \/ op.name = "get_stats" /\ tr[W].req.path = "/stats"
                        \/ op.name = "get_topics" /\ tr[W].req.path = "/topics"
                ELSE json.user_id = op.actual
       /\ Sends("subscribe") \/ Sends("unsubscribe") =>
             /\ DOMAIN json = {"user_id", "topic"}
             /\ json.topic = UiArg(op, op.topic)
       /\ Sends("publish_request") =>
             /\ json.topic = UiArg(op, op.topic)
             /\ json.content = UiArg(op, op.content)
             /\ "title" \in DOMAIN json <=> strip(op.title) # ""
             /\ "title" \in DOMAIN json => json.title = UiArg(op, op.title)
       /\ Sends("publish") =>
             /\ DOMAIN json = {"user_id", "request_id", "content"}
             /\ json.request_id = UiArg(op, op.request_id)
             /\ json.content = UiArg(op, op.content)

C25_Witness ==
    /\ Sends("publish_request") /\ tr[W].pc = "returned"
    /\ op.name = "publish_request" /\ op.user_id = "ua"
    /\ op.title = "" /\ DOMAIN tr[W].req.json = {"user_id", "topic", "content"}
    /\ tr[W].req.json.user_id = "ua"

(***************************************************************************)
(* Claims about the statistics tool                                        *)
(***************************************************************************)
\* C26 (as claimed): when the /stats fetch of the tool get_stats failed after its
\* attempts (connection failure, timeout or non-2xx), the tool returns the local
\* partial statistics with the number of session users, not an error text.
C26_StatsFallsBackToLocal ==
    (op.pc = "done" /\ op.name = "get_stats" /\ FetchFailed(op, 1))
        => op.ret = TextContent(LocalStats(Cardinality(DOMAIN session_users)))

(***************************************************************************)
(* Claims about the identity of the guarded reply                          *)
(***************************************************************************)
\* thread t has made two calls in a row with the same argument, as the guarded reply
\* does (validate_post_id_in_subscribed_topics, then publish_response_ui)
ResolvedTwice(t) ==
    th[t].pc = "done" /\ th[t].prev.called /\ th[t].prev.arg = th[t].arg

\* C27 (as claimed): under every interleaving with other threads' calls, the two
\* resolutions one thread makes in a row with the same argument (the guard's and the
\* publish's of one reply operation) return the same identity.
C27_GuardAndPublishSameIdentity ==
    \A t \in Threads : ResolvedTwice(t) => th[t].ret = th[t].prev.ret

(***************************************************************************)
(* Claims relating the offered reply targets to the guard                  *)
(***************************************************************************)
\* the post ids get_available_post_ids offers for the feed value
Offered(feed) == Range(PostIdsOf(feed))

\* C28 (as claimed): a post id that get_available_post_ids offers for a feed value
\* is allowed by the guard evaluated on the same feed value.
C28_OfferedIdsAreAllowed ==
    (gout.done /\ JStr(gin.post_id) \in Offered(gin.feed)) => gout.res.allowed

(***************************************************************************)
(* Claims about failures that are not transport failures                   *)
(***************************************************************************)
\* C29: an attempt that ended in a failure which is no transport failure (a 2xx
\* response whose body does not parse) is the call's last: the call has raised the
\* processing error, no request was sent after it and no backoff wait follows it
\* (the waits are those after the failed attempts before it), on whichever attempt
\* it happened, in the sync and the async method.
C29_OtherFailureEndsCall ==
    \A p \in Procs : \A i \in DOMAIN tr[p].outs :
        tr[p].outs[i] = "parse" =>
            /\ i = Len(tr[p].outs)
            /\ tr[p].pc = "raised"
            /\ tr[p].err = ProcessingError("parse")
            /\ Len(tr[p].used) = i
            /\ tr[p].waits = i - 1

C29_Witness ==
    \E p \in Procs :
        /\ tr[p].outs = <<"conn", "parse">>
        /\ tr[p].pc = "raised" /\ tr[p].waits = 1

(***************************************************************************)
(* Claims about termination                                                *)
(***************************************************************************)
\* the most requests an operation may send
MostRequests(name) ==
    IF name = "sync_publish_response_with_validation" THEN 6
    ELSE IF name \in {"sync_get_user_info", "get_user_info"} THEN 12
    ELSE 3

\* C30: every operation that has begun returns to its caller (with a result or an
\* error text), every attempt and every sleep coming to an end; and at no time has
\* it sent more than 3 requests, the guarded reply more than 6 (at most 3 of them
\* publishes), the user information more than 12.
C30_OperationsTerminate ==
    /\ [](RequestsSent <= MostRequests(op.name))
    /\ [](op.name = "sync_publish_response_with_validation" =>
             /\ op.npub + (IF IsPublishResponse(tr[W].req) THEN Len(tr[W].used) ELSE 0) <= 3
             /\ op.pc = "guard" => RequestsSent <= 3)
    /\ (op.pc # "idle") ~> (op.pc = "done")

C30_Witness ==
    /\ op.pc = "done" /\ op.name = "sync_get_user_info" /\ op.nreq = 12
    /\ op.ret.kind = "user_info"

(***************************************************************************)
(* Claims about the order of the user information's fetches                *)
(***************************************************************************)
\* what the k-th fetch of the user information asks for: subscriptions, own posts,
\* feed, inbox
FetchOrder == <<"/subscriptions", "/requests", "/received/requests", "/received/responses">>

\* C31: while the user information is being gathered, the request under way is the
\* one next in the order subscriptions, own posts, feed, inbox, and every fetch
\* before it succeeded; when the operation has returned after fetch k failed, k is
\* the last fetch it made and no request was sent for a later one.
C31_FetchesInOrderUntilFailure ==
    op.name \in {"sync_get_user_info", "get_user_info"} =>
        LET n == Len(op.fetches)
        IN /\ op.pc = "user_info" =>
                 /\ n < 4 /\ AllOk(op.fetches)
                 /\ tr[W].req = Request("GET", "/users/" \o op.actual \o FetchOrder[n + 1],
                                       NoJson)
           /\ op.pc = "done" =>
                 /\ \A k \in 1..n : op.fetches[k] # NoErr => k = n
                 /\ n < 4 => op.fetches[n] # NoErr
                 /\ op.nreq <= 3 * n /\ op.nreq >= n

C31_Witness ==
    /\ op.pc = "done" /\ op.name = "get_user_info"
    /\ op.fetches = <<NoErr, RequestFailed("status")>>
    /\ op.nreq = 4

(***************************************************************************)
(* Claims about the tool dispatcher                                        *)
(***************************************************************************)
\* the Gradio callbacks and the calls of user_manager, which do not go through
\* handle_call_tool
UiCallbacks ==
    {"get_display_name", "sync_subscribe_topic", "sync_unsubscribe_topic", "sync_publish_request",
     "sync_publish_response", "sync_publish_response_with_validation",
     "sync_get_user_info", "get_available_post_ids", "refresh_posts"}

\* the operation is a call of handle_call_tool
IsToolCall(o) == o.name # "" /\ o.name \notin UiCallbacks

\* what stands for a list with one TextContent
TextResultKinds ==
    {"text", "subscribe_tool_error", "unsubscribe_tool_error", "publish_tool_error",
     "reply_tool_error"}

\* C32: every call of handle_call_tool that is over has returned a text result, none
\* has raised; a call with a name that is no tool returns the unknown-tool text at
\* once, having sent no request and having left session_users and default_user_id
\* as they were.
C32_DispatcherNeverRaises ==
    /\ [](op.pc = "done" /\ IsToolCall(op) =>
             /\ op.ret.kind \in TextResultKinds
             /\ op.name \notin ToolNames =>
                   op.ret = TextContent(UnknownTool(op.name)) /\ op.nreq = 0)
    /\ [][(op.pc = "idle" /\ IsToolCall(op') /\ op'.name \notin ToolNames) =>
             /\ op'.pc = "done"
             /\ tr' = tr
             /\ session_users' = session_users
             /\ default_user_id' = default_user_id]_vars

C32_Witness ==
    /\ op.pc = "done" /\ op.name = "delete_topic"
    /\ op.ret = TextContent(UnknownTool("delete_topic"))
    /\ DOMAIN session_users # {} /\ nops >= 1

(***************************************************************************)
(* Claims about the shape of the identity registry                         *)
(***************************************************************************)
\* no thread is inside get_or_create_user_id
Quiescent == \A t \in Threads : th[t].pc \in {"idle", "done"}

\* C33 (as claimed): whenever no call of get_or_create_user_id is under way, every
\* key of session_users maps to a record with that key as its user_id, and
\* default_user_id, once set, is a key of session_users.
C33_RegistryWellFormed ==
    Quiescent =>
        /\ \A k \in DOMAIN session_users : session_users[k].user_id = k
        /\ default_user_id # None => default_user_id \in DOMAIN session_users

(***************************************************************************)
(* Claims about operations that leave the identity registry alone          *)
(***************************************************************************)
\* the step is a lookup with get_display_name (and with it get_user_info)
LooksUp == op.pc = "idle" /\ op'.name = "get_display_name"

\* the step is an operation returning at once for a required argument that is
\* missing or blank
RejectsAtOnce == op.pc = "idle" /\ op'.pc = "done" /\ Omitted(op')

\* C34: a lookup with get_user_info or get_display_name, of a registered identity
\* or an unknown one, leaves session_users and default_user_id as they were; so
\* does an operation that is rejected for a missing or blank required argument.
C34_LookupsAndRejectionsKeepRegistry ==
    [][(LooksUp \/ RejectsAtOnce) =>
          /\ session_users' = session_users
          /\ default_user_id' = default_user_id]_vars

C34_Witness ==
    /\ op.pc = "done" /\ op.name = "get_display_name" /\ op.user_id = "ub"
    /\ op.ret = DisplayName("unknown_user_ub")
    /\ "ub" \notin DOMAIN session_users /\ DOMAIN session_users # {}

(***************************************************************************)
(* Claims about the entry the guard returns                                *)
(***************************************************************************)
\* the indexes of the feed's entries that the guard's search takes for post_id: by
\* request_id in a feed object's list, by id or request_id in a bare list
MatchingEntries(feed, post_id) ==
    {i \in DOMAIN FeedEntries(feed) :
        LET e == FeedEntries(feed)[i]
        IN /\ IsDict(e)
           /\ \/ Get(e, "request_id", JNull) = JStr(post_id)
              \/ IsList(feed) /\ Get(e, "id", JNull) = JStr(post_id)}

\* the smallest index of a non-empty set of indexes
Smallest(S) == CHOOSE i \in S : \A j \in S : i <= j

\* the topic and the preview of a feed entry; no preview can be made of a content
\* that is no text
TopicOf(e) == Get(e, "topic", JStr(""))
PreviewOf(e) ==
    LET content == Get(e, "content", JStr(""))
    IN IF IsStr(content) THEN Prefix(content.s, PreviewLen) \o Ellipsis ELSE Ellipsis

\* C35 (as claimed): when several entries of the feed match the post id, the guard
\* allows the reply and returns the topic and the preview of the matching entry
\* that comes first in the feed.
C35_FirstMatchingEntry ==
    LET M == MatchingEntries(gin.feed, gin.post_id)
    IN (gout.done /\ Cardinality(M) >= 2) =>
          LET e == FeedEntries(gin.feed)[Smallest(M)]
          IN /\ gout.res.allowed
             /\ gout.res.topic = TopicOf(e)
             /\ gout.res.preview = PreviewOf(e)

====
